---- MODULE Spec2Model ----
(***************************************************************************)
(* Client-side TLS 1.3 handshake state machine of rustls                   *)
(* (rustls/src/client/hs.rs, rustls/src/client/tls13.rs) and the           *)
(* configuration builder's validation (rustls/src/builder.rs).             *)
(*                                                                         *)
(* One connection is modelled.  `config` and `session_storage` are the     *)
(* shared, immutable configuration and the session cache; `cx` is the      *)
(* ClientContext (ConnectionCommon + ClientConnectionData) borrowed into   *)
(* every transition; `st` is the one live handshake state object; `now` is *)
(* the clock read by TimeBase::now(); `last_msg` is the message the last   *)
(* transition consumed and `accepted` the sequence, in network order, of   *)
(* the messages whose transition returned a successor state (their type,   *)
(* the PSK a ServerHello selected, whether a CertificateVerify or Finished *)
(* verified).  cx.log is the ordered record of what the connection         *)
(* received, sent and did to the record layer.                             *)
(* Hashes and secrets are modelled symbolically: a                         *)
(* transcript hash is the sequence of messages hashed, a key is named by   *)
(* its kind and by the branch of the key schedule it was derived from.     *)
(***************************************************************************)
EXTENDS Integers, Sequences, FiniteSets, TLC

VARIABLES config, session_storage, now, cx, st, last_msg, accepted, cx2, st2, heard, builder

vars == <<config, session_storage, now, cx, st, last_msg, accepted, cx2, st2, heard, builder>>

\* A second connection created from the same ClientConfig (cx2, st2), what
\* each of the two connections took in so far (heard[1], heard[2]), and the
\* configuration builder.
second == <<cx2, st2, heard, builder>>

None == "None"

(* ------------------------------------------------------------------ *)
(* Bounds of the model                                                *)
(* ------------------------------------------------------------------ *)

\* Largest clock value an initial state may hold.
MaxTime == 2

\* Largest max_early_data_size a cached ticket may carry.
MaxEarlyData == 1

(* ------------------------------------------------------------------ *)
(* Protocol constants                                                 *)
(* ------------------------------------------------------------------ *)

TLSv1_0 == "TLSv1_0"
TLSv1_1 == "TLSv1_1"
TLSv1_2 == "TLSv1_2"
TLSv1_3 == "TLSv1_3"

\* Cipher suites the configuration holds, in preference order, each with the
\* protocol version it belongs to and its hash algorithm.
TLS13_AES_128_GCM_SHA256 == "TLS13_AES_128_GCM_SHA256"
TLS13_CHACHA20_POLY1305_SHA256 == "TLS13_CHACHA20_POLY1305_SHA256"
TLS13_AES_256_GCM_SHA384 == "TLS13_AES_256_GCM_SHA384"
TLS_ECDHE_RSA_WITH_AES_128_GCM_SHA256 == "TLS_ECDHE_RSA_WITH_AES_128_GCM_SHA256"
\* A suite no configuration of the model holds.
TLS_RSA_WITH_NULL_SHA == "TLS_RSA_WITH_NULL_SHA"
TLS_EMPTY_RENEGOTIATION_INFO_SCSV == "TLS_EMPTY_RENEGOTIATION_INFO_SCSV"

Tls13Suites ==
    {TLS13_AES_128_GCM_SHA256, TLS13_CHACHA20_POLY1305_SHA256, TLS13_AES_256_GCM_SHA384}

AllSuites == Tls13Suites \cup {TLS_ECDHE_RSA_WITH_AES_128_GCM_SHA256}

WireSuites == AllSuites \cup {TLS_RSA_WITH_NULL_SHA}

\* suite.version().version
SuiteVersion(s) == IF s \in Tls13Suites THEN TLSv1_3 ELSE TLSv1_2

\* suite.get_hash()
SuiteHash(s) == IF s = TLS13_AES_256_GCM_SHA384 THEN "SHA384" ELSE "SHA256"

\* Key-exchange groups: two the configuration holds, one it does not.
X25519 == "X25519"
secp256r1 == "secp256r1"
secp384r1 == "secp384r1"

WireGroups == {X25519, secp256r1, secp384r1}

\* The ALPN protocols of the configuration and one that is never offered.
OfferedAlpn == {"h2"}
WireAlpn == {"h2", "http/1.1"}

(* ------------------------------------------------------------------ *)
(* Small helpers on sequences                                         *)
(* ------------------------------------------------------------------ *)

Range(s) == {s[i] : i \in 1..Len(s)}

Contains(s, x) == \E i \in 1..Len(s) : s[i] = x

\* Position of the first occurrence of x in s, 0 when absent.
IndexOf(s, x) ==
    IF Contains(s, x) THEN CHOOSE i \in 1..Len(s) : s[i] = x /\ \A j \in 1..(i-1) : s[j] # x
    ELSE 0

\* Number of positions of s that satisfy nothing but equality with x.
Count(s, x) == Cardinality({i \in 1..Len(s) : s[i] = x})

IsPrefix(p, s) == Len(p) <= Len(s) /\ \A i \in 1..Len(p) : p[i] = s[i]

(* ------------------------------------------------------------------ *)
(* Keys, record-layer events, transcript entries                      *)
(* ------------------------------------------------------------------ *)

\* A record-layer key: its kind, the key-schedule branch it was derived from
\* ("Psk" for the resumption secret, "NonSecret" for the zero PSK) and, for
\* application keys, the number of KeyUpdate rotations applied to it.
Key(kind, from, gen) == [kind |-> kind, from |-> from, gen |-> gen]

NoKey == Key(None, None, 0)

\* An entry of cx.log, the ordered record of what the connection did to the
\* record layer: messages queued for sending (with the record version and
\* the key they are encrypted under, NoKey for plaintext), key installations,
\* alignment checks and the start of user traffic.
Event(ev, typ, version, key, detail, hello) ==
    [ev |-> ev, typ |-> typ, version |-> version, key |-> key, detail |-> detail,
     hello |-> hello]

\* The `hello` of an event that sends no ClientHello.
NoHello == [client_version |-> None]

\* The absent cached session, HelloRetryRequest and received message.
NoSession == [version |-> None]
NoRetry == [type |-> None]
NoKeyShare == [group |-> None]
NoMsg == [type |-> None]

\* An entry of a transcript: who sent the handshake message and its type.
Entry(who, typ) == [who |-> who, typ |-> typ]

\* HandshakeHash::add_message / HandshakeHashBuffer::add_message
add_message(transcript, who, typ) == Append(transcript, Entry(who, typ))

\* common.send_msg(m, must_encrypt)
send_msg(c, typ, version, must_encrypt, detail) ==
    [c EXCEPT !.log = Append(@,
        Event("send", typ, version, IF must_encrypt THEN c.encrypter ELSE NoKey, detail,
              NoHello))]

\* Fault: the ClientHello goes through the encrypter in place.
send_client_hello_encrypted(c, version, chp) ==
    [c EXCEPT !.log = Append(@, Event("send", "ClientHello", version, c.encrypter, None, chp))]

\* common.send_msg(ch, false) for a ClientHello with payload chp.
send_client_hello(c, version, chp) ==
    [c EXCEPT !.log = Append(@, Event("send", "ClientHello", version, NoKey, None, chp))]

\* common.send_fatal_alert(desc): the alert is encrypted iff the record layer
\* is encrypting.
send_fatal_alert(c, desc) ==
    [c EXCEPT !.log = Append(@, Event("send", "Alert", TLSv1_2, c.encrypter, desc, NoHello))]

\* record_layer.set_message_encrypter(key)
set_message_encrypter(c, key) ==
    [c EXCEPT !.encrypter = key,
              !.log = Append(@, Event("set_message_encrypter", None, None, key, None, NoHello))]

\* record_layer.set_message_decrypter(key)
set_message_decrypter(c, key) ==
    [c EXCEPT !.decrypter = key,
              !.log = Append(@, Event("set_message_decrypter", None, None, key, None, NoHello))]

\* The arrival of message m, as cx.log records it (with the request of a
\* KeyUpdate).
recv(c, m) ==
    [c EXCEPT !.log = Append(@, Event("recv", m.type, None, c.decrypter,
                                      IF m.type = "KeyUpdate" THEN m.request ELSE None,
                                      NoHello))]

\* A marker in cx.log for a step that sends nothing and installs no key.
note(c, what) == [c EXCEPT !.log = Append(@, Event(what, None, None, NoKey, None, NoHello))]

(* ------------------------------------------------------------------ *)
(* Outcome of a transition                                            *)
(* ------------------------------------------------------------------ *)

\* Ok(next state): the context as the transition left it and the successor.
Ok(c, s) == [cx |-> c, st |-> s]

\* Err(e): the state object is consumed (the model keeps it as it was at
\* the failure, with the state it failed in); the context keeps what the
\* transition already did to it.
Err(c, s, e) ==
    [cx |-> c, st |-> [s EXCEPT !.name = "Error", !.error = e, !.failed_in = s.name]]

\* common.illegal_param(why): IllegalParameter alert + PeerMisbehavedError.
illegal_param(c, s, why) ==
    Err(send_fatal_alert(c, "IllegalParameter"), s, <<"PeerMisbehavedError", why>>)

\* A panic (failed assertion, unwrap of None) aborts the connection.
Panic(c, s, why) == Err(c, s, <<"Panic", why>>)

(* ------------------------------------------------------------------ *)
(* Configuration, session storage                                     *)
(* ------------------------------------------------------------------ *)

\* config.supports_version(v)
supports_version(cfg, v) == v \in cfg.versions

\* config.find_cipher_suite(suite): the configured suite with that wire
\* identifier, whatever its protocol version.
find_cipher_suite(cfg, suite) == IF Contains(cfg.cipher_suites, suite) THEN suite ELSE None

\* kx::KeyExchange::choose(group, &config.kx_groups)
kx_choose(group, kx_groups) == IF Contains(kx_groups, group) THEN group ELSE None

\* Tls13CipherSuite::can_resume_from(prev): the previous suite when it is a
\* TLS 1.3 suite with the same hash algorithm.
can_resume_from(suite, prev) ==
    IF prev \in Tls13Suites /\ SuiteHash(prev) = SuiteHash(suite) THEN prev ELSE None

\* A persisted session value (persist::ClientSessionValue).
SessionValue(version, suite, ticket, max_early, epoch, lifetime) ==
    [version |-> version, suite |-> suite, ticket |-> ticket,
     max_early_data_size |-> max_early, epoch |-> epoch, lifetime |-> lifetime]

\* ClientSessionValueWithResolvedCipherSuite::has_expired at retrieval time t.
has_expired(v, t) == v.lifetime # 0 /\ v.epoch + v.lifetime < t

\* Fault: a cached session is returned whatever its age.
find_session_ignoring_expiry(cfg, storage, t) ==
    LET value == storage.session IN
    IF value = NoSession THEN NoSession
    ELSE IF find_cipher_suite(cfg, value.suite) = None THEN NoSession
    ELSE value

\* find_session: the cached session for the server name, unless there is
\* none, its suite is no longer configured, or it has expired.  Only `get`
\* is called on the storage.
find_session(cfg, storage, t) ==
    LET value == storage.session IN
    IF value = NoSession THEN NoSession
    ELSE IF find_cipher_suite(cfg, value.suite) = None THEN NoSession
    ELSE IF has_expired(value, t) THEN NoSession
    ELSE value

\* Fault: an entry that find_session does not return (expired, or of a
\* suite no longer configured) is removed from the storage.
storage_after_lookup_discarding(cfg, storage, t) ==
    IF storage.session # NoSession /\ find_session(cfg, storage, t) = NoSession
    THEN [storage EXCEPT !.session = NoSession]
    ELSE storage

\* The session storage as find_session leaves it: the only call made on it
\* is `get`; an entry found expired is dropped from the result, never from
\* the storage.
storage_after_lookup(cfg, storage, t) == storage

\* kx::KeyExchange::start(group): a fresh key pair of the group; nth tells
\* the key pairs a connection generated apart.
kx_start(group, nth) == [group |-> group, nth |-> nth]

\* initial_key_share: the hinted group if it is still configured, else the
\* first configured group.
initial_key_share(cfg, storage) ==
    LET hinted == IF storage.hint = None THEN None ELSE kx_choose(storage.hint, cfg.kx_groups) IN
    kx_start(IF hinted # None THEN hinted ELSE cfg.kx_groups[1], 1)

\* Fault: the group the server liked is not remembered.
save_kx_hint_skipped(storage, group) == storage

\* save_kx_hint: put(hint_for_server_name, group)
save_kx_hint(storage, group) == [storage EXCEPT !.hint = group]

\* EarlyData::is_enabled()
early_data_is_enabled(c) == c.early_data \in {"Ready", "Accepted"}

\* ClientExtension::get_type for the two SessionTicket forms and the rest.
get_type(ext) ==
    IF ext \in {"SessionTicketRequest", "SessionTicketOffer"} THEN "SessionTicket" ELSE ext

\* ClientHelloDetails::server_sent_unsolicited_extensions
server_sent_unsolicited_extensions(sent_extensions, received_exts, allowed_unsolicited) ==
    \E e \in received_exts : e \notin sent_extensions /\ e \notin allowed_unsolicited

\* ClientHelloDetails::server_may_send_sct_list
server_may_send_sct_list(sent_extensions) == "SCT" \in sent_extensions

(* ------------------------------------------------------------------ *)
(* ClientHello emission                                               *)
(* ------------------------------------------------------------------ *)

\* Fault: the record goes out whether or not one was sent before.
emit_fake_ccs_every_time(sent_tls13_fake_ccs, c) ==
    IF c.quic THEN [sent |-> sent_tls13_fake_ccs, cx |-> c]
    ELSE [sent |-> TRUE, cx |-> send_msg(c, "ChangeCipherSpec", TLSv1_2, FALSE, None)]

\* emit_fake_ccs: nothing over QUIC, nothing when already sent, else one
\* plaintext ChangeCipherSpec record; the flag is set in both latter cases.
emit_fake_ccs(sent_tls13_fake_ccs, c) ==
    IF c.quic THEN [sent |-> sent_tls13_fake_ccs, cx |-> c]
    ELSE IF sent_tls13_fake_ccs THEN [sent |-> TRUE, cx |-> c]
    ELSE [sent |-> TRUE, cx |-> send_msg(c, "ChangeCipherSpec", TLSv1_2, FALSE, None)]

\* Fault: the PreSharedKey offer is appended before the EarlyData extension.
prepare_resumption_psk_before_early_data(cfg, c, resuming_session, resuming_suite, exts, doing_retry) ==
    LET c1 == [c EXCEPT !.resumption_ciphersuite = resuming_suite]
        early == cfg.enable_early_data /\ resuming_session.max_early_data_size > 0
                 /\ ~doing_retry
        c2 == IF early THEN [c1 EXCEPT !.early_data = "Ready"] ELSE c1
        exts1 == Append(exts, "PreSharedKey")
    IN [cx |-> c2, exts |-> IF early THEN Append(exts1, "EarlyData") ELSE exts1]

\* Fault: early data is offered on a retry as on the first ClientHello.
prepare_resumption_also_on_retry(cfg, c, resuming_session, resuming_suite, exts, doing_retry) ==
    LET c1 == [c EXCEPT !.resumption_ciphersuite = resuming_suite]
        early == cfg.enable_early_data /\ resuming_session.max_early_data_size > 0
        c2 == IF early THEN [c1 EXCEPT !.early_data = "Ready"] ELSE c1
        exts1 == IF early THEN Append(exts, "EarlyData") ELSE exts
    IN [cx |-> c2, exts |-> Append(exts1, "PreSharedKey")]

\* prepare_resumption: records the resumption suite, enables early data and
\* appends EarlyData when allowed, then appends the PreSharedKey offer (one
\* identity, placeholder binder) as the last extension.
prepare_resumption(cfg, c, resuming_session, resuming_suite, exts, doing_retry) ==
    LET c1 == [c EXCEPT !.resumption_ciphersuite = resuming_suite]
        early == cfg.enable_early_data /\ resuming_session.max_early_data_size > 0
                 /\ ~doing_retry
        c2 == IF early THEN [c1 EXCEPT !.early_data = "Ready"] ELSE c1
        exts1 == IF early THEN Append(exts, "EarlyData") ELSE exts
    IN [cx |-> c2, exts |-> Append(exts1, "PreSharedKey")]

\* derive_early_traffic_secret: fake CCS, then the client early traffic key
\* becomes the encrypter and early_traffic is set.
derive_early_traffic_secret(c, sent_tls13_fake_ccs) ==
    LET ccs == emit_fake_ccs(sent_tls13_fake_ccs, c)
        c1 == set_message_encrypter(ccs.cx, Key("EarlyTraffic", "Psk", 0))
    IN [sent |-> ccs.sent, cx |-> [c1 EXCEPT !.early_traffic = TRUE]]

\* The key schedule of a state that holds none.
NoSchedule == [stage |-> None]

\* The client-auth details a state carries: whether a CertificateRequest was
\* accepted, whether the resolver gave a credential, whether a signer was
\* chosen.
ClientAuth(requested, certkey, signer) ==
    [requested |-> requested, certkey |-> certkey, signer |-> signer]

NoClientAuth == ClientAuth(FALSE, FALSE, FALSE)

\* The server certificate details of a state that holds none.
NoServerCert == [cert_chain |-> None]

\* The state object every handshake state of the model is an instance of;
\* a field a state does not carry holds its default.
BlankState ==
    [name |-> "Start", error |-> <<None, "">>, failed_in |-> None,
     resuming_session |-> NoSession, early_key_schedule |-> None,
     sent_extensions |-> {}, offered_key_share |-> NoKeyShare, session_id |-> None,
     sent_tls13_fake_ccs |-> FALSE, suite |-> None, using_ems |-> FALSE,
     extra_exts |-> <<>>, may_send_sct_list |-> FALSE,
     transcript |-> <<>>, key_schedule |-> NoSchedule,
     server_cert |-> NoServerCert, client_auth |-> NoClientAuth,
     cert_verified |-> None, sig_verified |-> None, fin_verified |-> None,
     want_write_key_update |-> FALSE]

\* Fault: the state after a retry ClientHello takes a HelloRetryRequest too.
expect_after_any_client_hello(support_tls13, retryreq) ==
    IF support_tls13 THEN "ExpectServerHelloOrHelloRetryRequest" ELSE "ExpectServerHello"

\* emit_client_hello_for_retry, the state it returns: the one that takes a
\* HelloRetryRequest only after the first ClientHello of a configuration
\* with TLS 1.3.
expect_after_client_hello(support_tls13, retryreq) ==
    IF support_tls13 /\ retryreq = NoRetry THEN "ExpectServerHelloOrHelloRetryRequest"
    ELSE "ExpectServerHello"

\* emit_client_hello_for_retry: builds and sends the (first or retry)
\* ClientHello and returns the state expecting the server's answer.
emit_client_hello_for_retry(cfg, c, resuming_session, using_ems, transcript_buffer, sent_ccs, session_id, retryreq, key_share, extra_exts, may_send_sct_list, suite) ==
    LET ticket == IF resuming_session # NoSession THEN resuming_session.ticket ELSE ""
        resume_version == IF resuming_session # NoSession THEN resuming_session.version ELSE "Unknown"
        support_tls12 == supports_version(cfg, TLSv1_2) /\ ~c.quic
        support_tls13 == supports_version(cfg, TLSv1_3)
        supported_versions ==
            (IF support_tls13 THEN <<TLSv1_3>> ELSE <<>>)
            \o (IF support_tls12 THEN <<TLSv1_2>> ELSE <<>>)
        cookie == IF retryreq = NoRetry THEN None ELSE retryreq.cookie
        exts0 ==
            (IF supported_versions # <<>> THEN <<"SupportedVersions">> ELSE <<>>)
            \o (IF cfg.enable_sni THEN <<"ServerName">> ELSE <<>>)
            \o <<"ECPointFormats", "NamedGroups", "SignatureAlgorithms",
                 "ExtendedMasterSecret", "StatusRequest">>
            \o (IF may_send_sct_list THEN <<"SCT">> ELSE <<>>)
            \o (IF key_share # NoKeyShare THEN <<"KeyShare">> ELSE <<>>)
            \o (IF cookie # None THEN <<"Cookie">> ELSE <<>>)
            \o (IF support_tls13 /\ cfg.enable_tickets THEN <<"PSKKeyExchangeModes">> ELSE <<>>)
            \o (IF cfg.alpn_protocols # {} THEN <<"ALProtocolNegotiation">> ELSE <<>>)
            \o extra_exts
        tls13_ticket == support_tls13 /\ cfg.enable_tickets
                        /\ resume_version = TLSv1_3 /\ ticket # ""
        resuming_suite ==
            IF ~tls13_ticket \/ resuming_session = NoSession THEN None
            ELSE IF suite # None
                 THEN (IF suite \in Tls13Suites
                       THEN can_resume_from(suite, resuming_session.suite) ELSE None)
                 ELSE (IF resuming_session.suite \in Tls13Suites
                       THEN resuming_session.suite ELSE None)
        prepared ==
            IF resuming_suite # None
            THEN prepare_resumption(cfg, c, resuming_session, resuming_suite, exts0,
                                    retryreq # NoRetry)
            ELSE IF ~tls13_ticket /\ cfg.enable_tickets
                 THEN [cx |-> c,
                       exts |-> Append(exts0, IF ticket = "" THEN "SessionTicketRequest"
                                              ELSE "SessionTicketOffer")]
                 ELSE [cx |-> c, exts |-> exts0]
        fill_in_binder == resuming_suite # None
        exts == prepared.exts
        chp == [client_version |-> TLSv1_2,
                session_id |-> IF session_id = None THEN "Empty" ELSE session_id,
                cipher_suites |-> Append(cfg.cipher_suites, TLS_EMPTY_RENEGOTIATION_INFO_SCSV),
                extensions |-> exts,
                supported_versions |-> supported_versions,
                key_share |-> key_share,
                cookie |-> cookie,
                ticket |-> IF Contains(exts, "PreSharedKey") \/ Contains(exts, "SessionTicketOffer")
                           THEN ticket ELSE "",
                binder |-> IF fill_in_binder THEN resuming_suite ELSE None]
        version == IF retryreq # NoRetry THEN TLSv1_2 ELSE TLSv1_0
        ccs == IF retryreq # NoRetry THEN emit_fake_ccs(sent_ccs, prepared.cx)
               ELSE [sent |-> sent_ccs, cx |-> prepared.cx]
        transcript1 == add_message(transcript_buffer, "client", "ClientHello")
        c_sent == send_client_hello(ccs.cx, version, chp)
        early == IF fill_in_binder /\ early_data_is_enabled(c_sent)
                 THEN derive_early_traffic_secret(c_sent, ccs.sent)
                 ELSE [sent |-> ccs.sent, cx |-> c_sent]
        next == [BlankState EXCEPT
                    !.name = expect_after_client_hello(support_tls13, retryreq),
                    !.resuming_session = resuming_session,
                    !.using_ems = using_ems,
                    !.transcript = transcript1,
                    !.early_key_schedule = IF fill_in_binder THEN "KeyScheduleEarly" ELSE None,
                    !.sent_extensions = {get_type(exts[i]) : i \in 1..Len(exts)},
                    !.offered_key_share = key_share,
                    !.session_id = chp.session_id,
                    !.sent_tls13_fake_ccs = early.sent,
                    !.suite = suite,
                    !.extra_exts = extra_exts]
    IN Ok(early.cx, next)

(* ------------------------------------------------------------------ *)
(* Initial states                                                     *)
(* ------------------------------------------------------------------ *)

\* A configuration the builder accepts: at least one version enabled, a
\* suite of an enabled version, at least one key-exchange group.
Config(versions, tickets, early, scts) ==
    [versions |-> versions,
     cipher_suites |-> <<TLS13_AES_256_GCM_SHA384, TLS13_AES_128_GCM_SHA256,
                         TLS13_CHACHA20_POLY1305_SHA256,
                         TLS_ECDHE_RSA_WITH_AES_128_GCM_SHA256>>,
     kx_groups |-> <<X25519, secp256r1>>,
     alpn_protocols |-> OfferedAlpn,
     enable_sni |-> TRUE,
     enable_tickets |-> tickets,
     enable_early_data |-> early,
     request_scts |-> scts]

\* Sessions a previous connection may have left in the storage, issued at
\* time 0 with a lifetime of one tick.
CachedSessions ==
    {NoSession}
    \cup {SessionValue(TLSv1_3, s, "ticket0", m, 0, 1) :
            s \in {TLS13_AES_128_GCM_SHA256, TLS13_AES_256_GCM_SHA384}, m \in 0..MaxEarlyData}
    \cup {SessionValue(TLSv1_2, TLS_ECDHE_RSA_WITH_AES_128_GCM_SHA256, t, 0, 0, 1) :
            t \in {"", "ticket0"}}

\* Key-exchange hints a previous connection may have left.
CachedHints == {None, secp256r1, secp384r1}

\* Contents of the session storage when the connection is created.
Storages ==
    {[session |-> NoSession, hint |-> h] : h \in CachedHints}
    \cup {[session |-> v, hint |-> None] : v \in CachedSessions \ {NoSession}}

\* The connection context before start_handshake.
BlankContext(quic) ==
    [quic |-> quic,
     negotiated_version |-> None, suite |-> None, alpn_protocol |-> None,
     early_traffic |-> FALSE, encrypter |-> NoKey, decrypter |-> NoKey,
     may_send_application_data |-> FALSE,
     early_data |-> "Disabled", resumption_ciphersuite |-> None,
     server_cert_chain |-> None,
     log |-> <<>>]

\* A cached TLS 1.3 ticket that allows early data, and a cached TLS 1.2
\* ticket.
EarlyDataTicket == SessionValue(TLSv1_3, TLS13_AES_128_GCM_SHA256, "ticket0", MaxEarlyData, 0, 1)
Tls12Ticket == SessionValue(TLSv1_2, TLS_ECDHE_RSA_WITH_AES_128_GCM_SHA256, "ticket0", 0, 0, 1)

MainStorages ==
    {[session |-> v, hint |-> None] : v \in {NoSession, EarlyDataTicket, Tls12Ticket}}

\* The connections of the model, <<config, over QUIC, storage, clock>>:
\*  - tickets and early data enabled, for every choice of versions, every
\*    storage content and every clock value (so that each cached session is
\*    met both fresh and expired);
\*  - TLS 1.2 and 1.3 enabled with tickets or early data disabled;
\*  - QUIC connections (which need TLS 1.3 enabled);
\*  - a verifier that does not ask for SCTs.
Scenarios ==
    {<<Config(v, TRUE, TRUE, TRUE), FALSE, sto, t>> :
        v \in {{TLSv1_3}, {TLSv1_2, TLSv1_3}, {TLSv1_2}}, sto \in Storages, t \in 1..MaxTime}
    \cup {<<Config({TLSv1_2, TLSv1_3}, te[1], te[2], TRUE), FALSE, sto, 1>> :
            te \in {<<FALSE, FALSE>>, <<TRUE, FALSE>>, <<FALSE, TRUE>>}, sto \in MainStorages}
    \cup {<<Config(v, TRUE, TRUE, TRUE), TRUE, sto, 1>> :
            v \in {{TLSv1_3}, {TLSv1_2, TLSv1_3}}, sto \in MainStorages}
    \cup {<<Config({TLSv1_2, TLSv1_3}, FALSE, FALSE, FALSE), FALSE,
             [session |-> NoSession, hint |-> None], 1>>}

(* ------------------------------------------------------------------ *)
(* The configuration builder                                          *)
(* ------------------------------------------------------------------ *)

\* Longest list of cipher suites and of key-exchange groups given to the
\* builder.
MaxListLen == 2

\* A builder stage with the selections made so far; result is the answer
\* of for_client / for_server (None before).
Builder(stage, cipher_suites, kx_groups, versions, result) ==
    [stage |-> stage, cipher_suites |-> cipher_suites, kx_groups |-> kx_groups,
     versions |-> versions, result |-> result]

\* config_builder()
config_builder == Builder("ConfigWantsCipherSuites", <<>>, <<>>, {}, None)

\* ConfigWantsCipherSuites::with_cipher_suites
with_cipher_suites(b, cipher_suites) ==
    Builder("ConfigWantsKxGroups", cipher_suites, <<>>, {}, None)

\* ConfigWantsKxGroups::with_kx_groups
with_kx_groups(b, kx_groups) ==
    Builder("ConfigWantsVersions", b.cipher_suites, kx_groups, {}, None)

\* ConfigWantsVersions::with_protocol_versions; versions is what
\* EnabledVersions::new keeps of the list, the set of the versions named.
with_protocol_versions(b, versions) ==
    Builder("ConfigWantsPeerType", b.cipher_suites, b.kx_groups, versions, None)

\* validate's loop from suite i on: whether a suite of an enabled version
\* is found.
RECURSIVE any_usable_suite(_, _, _)
any_usable_suite(cipher_suites, versions, i) ==
    IF i > Len(cipher_suites) THEN FALSE
    ELSE IF SuiteVersion(cipher_suites[i]) \in versions THEN TRUE
    ELSE any_usable_suite(cipher_suites, versions, i + 1)

\* Fault: the key-exchange groups are checked before the suites.
validate_kx_groups_first(b) ==
    IF Len(b.kx_groups) = 0 THEN "no kx groups configured"
    ELSE IF ~any_usable_suite(b.cipher_suites, b.versions, 1)
    THEN "no usable cipher suites configured"
    ELSE "Ok"

\* ConfigWantsPeerType::validate: "Ok", or the text of Error::General.
validate(b) ==
    IF ~any_usable_suite(b.cipher_suites, b.versions, 1)
    THEN "no usable cipher suites configured"
    ELSE IF Len(b.kx_groups) = 0 THEN "no kx groups configured"
    ELSE "Ok"

\* for_client / for_server: the next stage with the same selections, or
\* validate's error.
for_peer(b, next_stage) ==
    IF validate(b) = "Ok"
    THEN Builder(next_stage, b.cipher_suites, b.kx_groups, b.versions, "Ok")
    ELSE Builder("Error", b.cipher_suites, b.kx_groups, b.versions, validate(b))

Init ==
    /\ \E sc \in Scenarios :
          /\ config = sc[1]
          /\ cx = BlankContext(sc[2])
          /\ session_storage = sc[3]
          /\ now = sc[4]
    /\ st = BlankState
    /\ last_msg = NoMsg
    /\ accepted = <<>>
    /\ cx2 = BlankContext(FALSE)
    /\ st2 = BlankState
    /\ heard = <<<<>>, <<>>>>
    /\ builder = config_builder

(* ------------------------------------------------------------------ *)
(* start_handshake                                                    *)
(* ------------------------------------------------------------------ *)

\* start_handshake: looks up the cached session and the key-share hint,
\* picks the session id and emits the first ClientHello.  rng_ok is whether
\* the system random source delivered.
start_handshake(cfg, storage, t, c, rng_ok) ==
    LET support_tls13 == supports_version(cfg, TLSv1_3)
        found == find_session(cfg, storage, t)
        key_share == IF support_tls13 THEN initial_key_share(cfg, storage) ELSE NoKeyShare
        resuming_session == found
        session_id ==
            IF found # NoSession /\ found.version = TLSv1_2
            THEN (IF found.ticket # "" THEN "Random" ELSE "Cached")
            ELSE IF ~c.quic THEN "Random" ELSE None
        extra_exts == IF c.quic THEN <<"TransportParameters">> ELSE <<>>
    IN IF ~rng_ok THEN Err(c, BlankState, <<"FailedToGetRandomBytes", "">>)
       ELSE emit_client_hello_for_retry(cfg, c, resuming_session, FALSE, <<>>, FALSE,
                                        session_id, NoRetry, key_share, extra_exts,
                                        cfg.request_scts, None)

StartHandshake ==
    /\ st.name = "Start"
    /\ \E rng_ok \in BOOLEAN :
          LET r == start_handshake(config, session_storage, now, cx, rng_ok) IN
          /\ cx' = r.cx
          /\ st' = r.st
    /\ session_storage' = storage_after_lookup(config, session_storage, now)
    /\ last_msg' = NoMsg
    /\ accepted' = accepted
    /\ UNCHANGED <<config, now>>
    /\ UNCHANGED second

(* ------------------------------------------------------------------ *)
(* ServerHello                                                        *)
(* ------------------------------------------------------------------ *)

\* A received ServerHello.  supported_versions, key_share, psk, ecpoints,
\* alpn and other are the extensions it carries (None when absent);
\* duplicate_ext says one of them appears twice.  ecdh_ok is whether the
\* key exchange completes on the server's share, aligned whether the record
\* layer holds no partial handshake message when it is handled.
ServerHello(legacy, sv, comp_null, dup, suite, key_share, psk, ecpoints, alpn, other, ecdh_ok, aligned) ==
    [type |-> "ServerHello", legacy_version |-> legacy, supported_versions |-> sv,
     compression_null |-> comp_null, duplicate_ext |-> dup, cipher_suite |-> suite,
     key_share |-> key_share, psk |-> psk, ecpoints |-> ecpoints, alpn |-> alpn,
     other |-> other, ecdh_ok |-> ecdh_ok, aligned |-> aligned]

\* The extension types a ServerHello carries.
ServerHelloExts(m) ==
    (IF m.supported_versions # None THEN {"SupportedVersions"} ELSE {})
    \cup (IF m.key_share # None THEN {"KeyShare"} ELSE {})
    \cup (IF m.psk # None THEN {"PreSharedKey"} ELSE {})
    \cup (IF m.ecpoints # None THEN {"ECPointFormats"} ELSE {})
    \cup (IF m.alpn # None THEN {"ALProtocolNegotiation"} ELSE {})
    \cup (IF m.other # None THEN {m.other} ELSE {})

\* ServerHelloPayload::has_duplicate_extension
has_duplicate_extension(m) == m.duplicate_ext

\* Fault: duplicate extensions go unnoticed.
body_checks_without_duplicates(m) ==
    IF ~m.compression_null THEN "IllegalParameter" ELSE "Ok"

\* The checks of ExpectServerHello::handle between the version match and
\* the unsolicited-extension check: the alert of the first that fails.
body_checks(m) ==
    IF ~m.compression_null THEN "IllegalParameter"
    ELSE IF has_duplicate_extension(m) THEN "DecodeError"
    ELSE "Ok"

\* Fault: the suite's protocol version is not compared with the
\* negotiated version.
suite_check_ignoring_version(version, suite, prev_suite) ==
    IF prev_suite # None /\ prev_suite # suite THEN "server varied selected ciphersuite"
    ELSE "Ok"

\* The two checks of ExpectServerHello::handle on the configured suite the
\* server chose: it is a suite of the negotiated version, and after a
\* HelloRetryRequest it is the suite the HelloRetryRequest chose.  The
\* text of the first that fails.
suite_check(version, suite, prev_suite) ==
    IF version # SuiteVersion(suite) THEN "server chose unusable ciphersuite for version"
    ELSE IF prev_suite # None /\ prev_suite # suite THEN "server varied selected ciphersuite"
    ELSE "Ok"

\* The version a ServerHello resolves to (hs.rs: server_version).
server_version(m) ==
    IF m.legacy_version = TLSv1_2
    THEN (IF m.supported_versions # None THEN m.supported_versions ELSE m.legacy_version)
    ELSE m.legacy_version

\* The version match of ExpectServerHello::handle: the pinned version, or
\* the error the match returns ("ZeroRtt": PeerMisbehavedError without an
\* alert; "IllegalParameter" and "ProtocolVersion": with that alert).
version_decision(cfg, c, m) ==
    LET v == server_version(m) IN
    IF v = TLSv1_3 /\ supports_version(cfg, TLSv1_3) THEN TLSv1_3
    ELSE IF v = TLSv1_2 /\ supports_version(cfg, TLSv1_2)
         THEN (IF early_data_is_enabled(c) /\ c.early_traffic THEN "ZeroRtt"
               ELSE IF m.supported_versions # None THEN "IllegalParameter"
               ELSE TLSv1_2)
    ELSE "ProtocolVersion"

\* hs::process_alpn_protocol: records the server's protocol, then rejects
\* it when it was not offered.
process_alpn_protocol(c, s, cfg, proto) ==
    LET c1 == [c EXCEPT !.alpn_protocol = proto] IN
    IF proto # None /\ proto \notin cfg.alpn_protocols
    THEN illegal_param(c1, s, "server sent non-offered ALPN protocol")
    ELSE Ok(c1, s)

\* The key schedule a state carries: its stage, the branch its secrets come
\* from, the transcript hashes fed to it so far, and how many times the
\* server and the client application traffic secrets were advanced.
KeySchedule(stage, from, hs_hash, traffic_hash, client_fin_hash) ==
    [stage |-> stage, from |-> from, hs_hash |-> hs_hash, traffic_hash |-> traffic_hash,
     client_fin_hash |-> client_fin_hash, server_gen |-> 0, client_gen |-> 0]

\* Fault: the alignment check passes with a fragment pending.
handshake_aligned_whatever(m) == TRUE

\* common.check_aligned_handshake() succeeds: no fragment of a further
\* handshake message is pending behind m.
handshake_aligned(m) == m.aligned

\* common.check_aligned_handshake() failing: UnexpectedMessage alert.
unaligned(c, s) ==
    Err(send_fatal_alert(c, "UnexpectedMessage"), s,
        <<"PeerMisbehavedError", "key epoch or handshake flight with pending fragment">>)

ALLOWED_PLAINTEXT_EXTS == {"KeyShare", "PreSharedKey", "SupportedVersions"}

DISALLOWED_TLS13_EXTS ==
    {"ECPointFormats", "SessionTicket", "RenegotiationInfo", "ExtendedMasterSecret"}

\* Fault: the resuming session survives a ServerHello that selected no PSK.
keep_resuming_session(psk_selected, resuming_session) == resuming_session

\* The resuming session handle_server_hello carries on with: kept when the
\* server selected the offered PSK, taken (dropped) otherwise.
resuming_after_server_hello(psk_selected, resuming_session) ==
    IF psk_selected THEN resuming_session ELSE NoSession

\* Fault: the handshake key schedule always continues the early schedule.
always_psk_schedule(psk_selected) == "Psk"

\* The branch the handshake key schedule is built from: the early schedule
\* of the PSK when it was selected, else KeyScheduleNonSecret.
handshake_schedule_from(psk_selected) == IF psk_selected THEN "Psk" ELSE "NonSecret"

\* Fault: the server may vary the suite while early data is in flight.
psk_checks_allowing_varied_suite(early_enabled, resuming_suite, suite, selected_psk) ==
    IF resuming_suite = None THEN "server resuming incompatible suite"
    ELSE IF selected_psk # "0" THEN "server selected invalid psk"
    ELSE "Ok"

\* handle_server_hello, the checks on a selected PSK of a resuming session:
\* the chosen suite can resume from the stored one (resuming_suite is what
\* can_resume_from gave), it is the stored one when early data is enabled,
\* and the index is 0.  The text of the first that fails.
psk_checks(early_enabled, resuming_suite, suite, selected_psk) ==
    IF resuming_suite = None THEN "server resuming incompatible suite"
    ELSE IF early_enabled /\ resuming_suite # suite THEN "server varied suite with early data"
    ELSE IF selected_psk # "0" THEN "server selected invalid psk"
    ELSE "Ok"

\* Fault: the client handshake key becomes the encrypter even while early
\* data is enabled.
install_handshake_keys_always(c, from) ==
    set_message_encrypter(set_message_decrypter(c, Key("HandshakeTraffic", from, 0)),
                          Key("HandshakeTraffic", from, 0))

\* handle_server_hello, installation of the handshake keys: the server key
\* decrypts; the client key encrypts unless early data is enabled.
install_handshake_keys(c, from) ==
    IF early_data_is_enabled(c)
    THEN set_message_decrypter(c, Key("HandshakeTraffic", from, 0))
    ELSE set_message_encrypter(set_message_decrypter(c, Key("HandshakeTraffic", from, 0)),
                               Key("HandshakeTraffic", from, 0))

\* A transition's outcome together with the session storage it leaves.
Out(r, storage) == [cx |-> r.cx, st |-> r.st, storage |-> storage]

\* Fault: the early data is rejected but early traffic stays on.
discard_early_data_keeping_traffic(c) ==
    [c EXCEPT !.early_data = "Rejected"]

\* handle_server_hello, not resuming: the early data is rejected and early
\* traffic is over.
discard_early_data(c) ==
    [c EXCEPT !.early_data = "Rejected", !.early_traffic = FALSE]

\* tls13::handle_server_hello: key share and PSK checks, the handshake key
\* schedule, the key-exchange hint, installation of the handshake keys.
\* s carries the transcript with the ServerHello already added.
handle_server_hello(cfg, c, s, storage, m, suite) ==
    IF \E e \in ServerHelloExts(m) : e \notin ALLOWED_PLAINTEXT_EXTS
    THEN Out(Err(send_fatal_alert(c, "UnsupportedExtension"), s,
                 <<"PeerMisbehavedError", "server sent unexpected cleartext ext">>), storage)
    ELSE IF m.key_share = None
    THEN Out(Err(send_fatal_alert(c, "MissingExtension"), s,
                 <<"PeerMisbehavedError", "missing key share">>), storage)
    ELSE IF s.offered_key_share.group # m.key_share
    THEN Out(illegal_param(c, s, "wrong group for key share"), storage)
    ELSE IF ~m.ecdh_ok
    THEN Out(Err(c, s, <<"PeerMisbehavedError", "key exchange failed">>), storage)
    ELSE
    LET psk_branch == m.psk # None /\ s.early_key_schedule # None
        resuming_suite == IF s.resuming_session # NoSession
                          THEN can_resume_from(suite, s.resuming_session.suite) ELSE None
    IN
    IF psk_branch /\ s.resuming_session = NoSession
    THEN Out(Err(c, s, <<"PeerMisbehavedError", "server selected unoffered psk">>), storage)
    ELSE IF psk_branch
            /\ psk_checks(early_data_is_enabled(c), resuming_suite, suite, m.psk) # "Ok"
    THEN Out(illegal_param(c, s, psk_checks(early_data_is_enabled(c), resuming_suite, suite,
                                            m.psk)), storage)
    ELSE
    LET \* Not resuming: the early schedule and the session are dropped.
        c1 == IF psk_branch THEN c ELSE discard_early_data(c)
        resuming1 == resuming_after_server_hello(psk_branch, s.resuming_session)
        from == handshake_schedule_from(psk_branch)
        storage1 == save_kx_hint(storage, m.key_share)
        s1 == [s EXCEPT !.resuming_session = resuming1, !.early_key_schedule = None]
    IN
    IF ~handshake_aligned(m) THEN Out(unaligned(c1, s1), storage1)
    ELSE
    LET key_schedule == KeySchedule("Handshake", from, s.transcript, <<>>, <<>>)
        c2 == install_handshake_keys(note(c1, "check_aligned_handshake"), from)
        ccs == emit_fake_ccs(s.sent_tls13_fake_ccs, c2)
    IN Out(Ok(ccs.cx,
              [BlankState EXCEPT
                 !.name = "ExpectEncryptedExtensions",
                 !.resuming_session = resuming1,
                 !.suite = suite,
                 !.transcript = s.transcript,
                 !.key_schedule = key_schedule,
                 !.sent_extensions = s.sent_extensions]),
           storage1)

\* check_message / require_handshake_msg! failing: the message is not of a
\* type the state accepts.
inappropriate(c, s, m) ==
    Err(c, s, <<IF m.type = "ApplicationData" THEN "InappropriateMessage"
                ELSE "InappropriateHandshakeMessage", m.type>>)

\* tls12::CompleteServerHelloHandling::handle_server_hello: the TLS 1.2
\* handshake takes the connection over.
tls12_handle_server_hello(c, s) == Ok(c, [s EXCEPT !.name = "Tls12Handshake"])

\* ExpectServerHello::handle
ExpectServerHello_handle(cfg, c, s, storage, m) ==
    IF m.type # "ServerHello" THEN Out(inappropriate(c, s, m), storage)
    ELSE
    LET version == version_decision(cfg, c, m) IN
    IF version = "ZeroRtt"
    THEN Out(Err(c, s, <<"PeerMisbehavedError", "server chose v1.2 when offering 0-rtt">>),
             storage)
    ELSE IF version = "IllegalParameter"
    THEN Out(illegal_param(c, s, "server chose v1.2 using v1.3 extension"), storage)
    ELSE IF version = "ProtocolVersion"
    THEN Out(Err(send_fatal_alert(c, "ProtocolVersion"), s,
                 <<"PeerIncompatibleError", "server does not support TLS v1.2/v1.3">>),
             storage)
    ELSE IF body_checks(m) = "IllegalParameter"
    THEN Out(illegal_param(c, s, "server chose non-Null compression"), storage)
    ELSE IF body_checks(m) = "DecodeError"
    THEN Out(Err(send_fatal_alert(c, "DecodeError"), s,
                 <<"PeerMisbehavedError", "server sent duplicate extensions">>), storage)
    ELSE IF server_sent_unsolicited_extensions(s.sent_extensions, ServerHelloExts(m),
                                               {"RenegotiationInfo"})
    THEN Out(Err(send_fatal_alert(c, "UnsupportedExtension"), s,
                 <<"PeerMisbehavedError", "server sent unsolicited extension">>), storage)
    ELSE
    LET c1 == [c EXCEPT !.negotiated_version = version]
        alpn == IF version # TLSv1_3 THEN process_alpn_protocol(c1, s, cfg, m.alpn)
                ELSE Ok(c1, s)
        c2 == alpn.cx
        suite == find_cipher_suite(cfg, m.cipher_suite)
    IN
    IF alpn.st.name = "Error" THEN Out(alpn, storage)
    ELSE IF m.ecpoints # None /\ m.ecpoints # "Uncompressed"
    THEN Out(Err(send_fatal_alert(c2, "HandshakeFailure"), s,
                 <<"PeerMisbehavedError", "server does not support uncompressed points">>),
             storage)
    ELSE IF suite = None
    THEN Out(Err(send_fatal_alert(c2, "HandshakeFailure"), s,
                 <<"PeerMisbehavedError", "server chose non-offered ciphersuite">>), storage)
    ELSE IF suite_check(version, suite, s.suite) # "Ok"
    THEN Out(illegal_param(c2, s, suite_check(version, suite, s.suite)), storage)
    ELSE
    LET c3 == [c2 EXCEPT !.suite = suite]
        s1 == [s EXCEPT !.suite = suite,
                        !.transcript = add_message(@, "server", "ServerHello")]
    IN
    IF suite \in Tls13Suites
    THEN (IF s1.offered_key_share = NoKeyShare
          THEN Out(Panic(c3, s1, "offered_key_share.unwrap()"), storage)
          ELSE handle_server_hello(cfg, c3, s1, storage, m, suite))
    ELSE Out(tls12_handle_server_hello(c3, s1), storage)

(* ------------------------------------------------------------------ *)
(* HelloRetryRequest                                                  *)
(* ------------------------------------------------------------------ *)

\* A received HelloRetryRequest.  cookie is None, "" (present and empty) or
\* a value; requested_group is None or the group of its KeyShare extension;
\* rng_ok is whether a fresh key share can be generated.
HelloRetryRequest(cookie, group, unknown, dup, sv, suite, aligned, rng_ok) ==
    [type |-> "HelloRetryRequest", cookie |-> cookie, requested_group |-> group,
     unknown_ext |-> unknown, duplicate_ext |-> dup, supported_versions |-> sv,
     cipher_suite |-> suite, aligned |-> aligned, rng_ok |-> rng_ok]

\* HandshakeHash::into_hrr_buffer: the transcript restarts from the
\* synthetic message_hash message standing for everything hashed so far.
into_hrr_buffer(transcript) == <<Entry("synthetic", "MessageHash")>>

\* Fault: a HelloRetryRequest that changes nothing passes.
asks_no_changes_ignored(cookie, req_group) == FALSE

\* handle_hello_retry_request: the HelloRetryRequest has neither a cookie
\* nor a requested group.
asks_no_changes(cookie, req_group) == cookie = None /\ req_group = None

\* Fault: the offered key share goes out again whatever group is requested.
retry_key_share_never_fresh(req_group, offered_key_share, kx_groups) ==
    offered_key_share

\* handle_hello_retry_request, the key share of the retry: a fresh one of
\* the requested group when that differs from the offered group and is
\* configured (none when it is not configured), else the offered one.
retry_key_share(req_group, offered_key_share, kx_groups) ==
    IF req_group # None /\ req_group # offered_key_share.group
    THEN (IF kx_choose(req_group, kx_groups) = None THEN NoKeyShare
          ELSE kx_start(kx_choose(req_group, kx_groups), offered_key_share.nth + 1))
    ELSE offered_key_share

\* ExpectServerHelloOrHelloRetryRequest::handle_hello_retry_request
handle_hello_retry_request(cfg, c, s, m) ==
    IF m.type # "HelloRetryRequest" THEN inappropriate(c, s, m)
    ELSE IF ~handshake_aligned(m) THEN unaligned(c, s)
    ELSE
    LET c0 == note(c, "check_aligned_handshake")
        cookie == m.cookie
        req_group == m.requested_group
        offered_key_share == s.offered_key_share
    IN
    IF offered_key_share = NoKeyShare THEN Panic(c0, s, "offered_key_share.unwrap()")
    ELSE IF cookie = None /\ req_group = offered_key_share.group
    THEN illegal_param(c0, s, "server requested hrr with our group")
    ELSE IF cookie = ""
    THEN illegal_param(c0, s, "server requested hrr with empty cookie")
    ELSE IF m.unknown_ext
    THEN Err(send_fatal_alert(c0, "UnsupportedExtension"), s,
             <<"PeerIncompatibleError", "server sent hrr with unhandled extension">>)
    ELSE IF m.duplicate_ext
    THEN illegal_param(c0, s, "server send duplicate hrr extensions")
    ELSE IF asks_no_changes(cookie, req_group)
    THEN illegal_param(c0, s, "server requested hrr with no changes")
    ELSE IF m.supported_versions # TLSv1_3
    THEN illegal_param(c0, s, "server requested unsupported version in hrr")
    ELSE
    LET c1 == [c0 EXCEPT !.negotiated_version = TLSv1_3]
        cs == find_cipher_suite(cfg, m.cipher_suite)
    IN
    IF cs = None THEN illegal_param(c1, s, "server requested unsupported cs in hrr")
    ELSE
    LET c2 == [c1 EXCEPT !.suite = cs]
        transcript_buffer ==
            add_message(into_hrr_buffer(s.transcript), "server", "HelloRetryRequest")
        c3 == IF early_data_is_enabled(c2) THEN [c2 EXCEPT !.early_data = "Rejected"] ELSE c2
        may_send_sct_list == server_may_send_sct_list(s.sent_extensions)
        new_group == req_group # None /\ req_group # offered_key_share.group
        key_share == retry_key_share(req_group, offered_key_share, cfg.kx_groups)
    IN
    IF key_share = NoKeyShare
    THEN illegal_param(c3, s, "server requested hrr with bad group")
    ELSE IF new_group /\ ~m.rng_ok THEN Err(c3, s, <<"FailedToGetRandomBytes", "">>)
    ELSE emit_client_hello_for_retry(cfg, c3, s.resuming_session, s.using_ems,
                                     transcript_buffer, s.sent_tls13_fake_ccs, s.session_id,
                                     m, key_share, s.extra_exts, may_send_sct_list, cs)

\* ExpectServerHelloOrHelloRetryRequest::handle
ExpectServerHelloOrHelloRetryRequest_handle(cfg, c, s, storage, m) ==
    IF m.type \notin {"ServerHello", "HelloRetryRequest"}
    THEN Out(inappropriate(c, s, m), storage)
    ELSE IF m.type = "ServerHello"
    THEN ExpectServerHello_handle(cfg, c, [s EXCEPT !.name = "ExpectServerHello"], storage, m)
    ELSE Out(handle_hello_retry_request(cfg, c, s, m), storage)

(* ------------------------------------------------------------------ *)
(* EncryptedExtensions                                                *)
(* ------------------------------------------------------------------ *)

\* A received EncryptedExtensions: the ALPN protocol it selects, whether it
\* carries early_data and QUIC transport parameters, one further extension
\* (None when absent), and whether an extension appears twice.
EncryptedExtensions(dup, alpn, early_data, quic_params, other) ==
    [type |-> "EncryptedExtensions", duplicate_ext |-> dup, alpn |-> alpn,
     early_data |-> early_data, quic_params |-> quic_params, other |-> other]

\* The extension types an EncryptedExtensions carries.
EncryptedExtensionsExts(m) ==
    (IF m.alpn # None THEN {"ALProtocolNegotiation"} ELSE {})
    \cup (IF m.early_data THEN {"EarlyData"} ELSE {})
    \cup (IF m.quic_params THEN {"TransportParameters"} ELSE {})
    \cup (IF m.other # None THEN {m.other} ELSE {})

\* validate_encrypted_extensions: the alert and error it returns, or "Ok".
validate_encrypted_extensions(sent_extensions, m) ==
    IF m.duplicate_ext
    THEN <<"DecodeError", "server sent duplicate encrypted extensions">>
    ELSE IF server_sent_unsolicited_extensions(sent_extensions, EncryptedExtensionsExts(m), {})
    THEN <<"UnsupportedExtension", "server sent unsolicited encrypted extension">>
    ELSE IF \E e \in EncryptedExtensionsExts(m) :
                e \in ALLOWED_PLAINTEXT_EXTS \/ e \in DISALLOWED_TLS13_EXTS
    THEN <<"UnsupportedExtension", "server sent inappropriate encrypted extension">>
    ELSE <<"Ok", "">>

\* Fault: early data counts as accepted whatever EncryptedExtensions carries.
early_data_always_accepted(c, ext_present) ==
    [c EXCEPT !.early_data = "Accepted"]

\* ExpectEncryptedExtensions::handle, the server's answer to early traffic:
\* accepted if the EarlyData extension is present, else rejected and early
\* traffic is over.
early_data_answer(c, ext_present) ==
    IF ext_present
    THEN [c EXCEPT !.early_data = "Accepted"]
    ELSE [c EXCEPT !.early_data = "Rejected", !.early_traffic = FALSE]

\* ExpectEncryptedExtensions::handle
ExpectEncryptedExtensions_handle(cfg, c, s, m) ==
    IF m.type # "EncryptedExtensions" THEN inappropriate(c, s, m)
    ELSE
    LET s1 == [s EXCEPT !.transcript = add_message(@, "server", "EncryptedExtensions")]
        valid == validate_encrypted_extensions(s.sent_extensions, m)
    IN
    IF valid[1] # "Ok"
    THEN Err(send_fatal_alert(c, valid[1]), s1, <<"PeerMisbehavedError", valid[2]>>)
    ELSE
    LET alpn == process_alpn_protocol(c, s1, cfg, m.alpn)
        c1 == alpn.cx
    IN
    IF alpn.st.name = "Error" THEN alpn
    ELSE IF c1.quic /\ ~m.quic_params
    THEN Err(send_fatal_alert(c1, "MissingExtension"), s1,
             <<"PeerMisbehavedError", "QUIC transport parameters not found">>)
    ELSE IF s1.resuming_session # NoSession
    THEN
        LET was_early_traffic == c1.early_traffic
            c2 == IF was_early_traffic THEN early_data_answer(c1, m.early_data) ELSE c1
            c3 == IF was_early_traffic /\ ~c2.early_traffic
                  THEN set_message_encrypter(c2,
                           Key("HandshakeTraffic", s1.key_schedule.from, 0))
                  ELSE c2
            c4 == [c3 EXCEPT !.server_cert_chain = "cached chain"]
        IN
        IF was_early_traffic /\ m.early_data /\ c1.early_data # "Ready"
        THEN Panic(c1, s1, "EarlyData::accepted")
        ELSE Ok(c4, [BlankState EXCEPT
                        !.name = "ExpectFinished",
                        !.suite = s1.suite,
                        !.transcript = s1.transcript,
                        !.key_schedule = s1.key_schedule,
                        !.client_auth = NoClientAuth,
                        !.cert_verified = "Assertion",
                        !.sig_verified = "Assertion"])
    ELSE IF m.early_data
    THEN Err(c1, s1, <<"PeerMisbehavedError",
                       "server sent early data extension without resumption">>)
    ELSE Ok(c1, [BlankState EXCEPT
                    !.name = "ExpectCertificateOrCertReq",
                    !.suite = s1.suite,
                    !.transcript = s1.transcript,
                    !.key_schedule = s1.key_schedule,
                    !.may_send_sct_list = server_may_send_sct_list(s1.sent_extensions)])

(* ------------------------------------------------------------------ *)
(* CertificateRequest, Certificate, CertificateVerify                 *)
(* ------------------------------------------------------------------ *)

\* A received CertificateRequest: whether its context is empty, whether it
\* names a signature scheme the client can sign with in TLS 1.3, and what
\* the client's resolver and signing key answer to it: "none" (no
\* credential), "cert" (a credential whose key supports none of the
\* schemes), "signer" (a credential and a signer).
CertificateRequest(context_empty, compat, resolved) ==
    [type |-> "CertificateRequest", context_empty |-> context_empty,
     compat_sigschemes |-> compat, resolved |-> resolved]

\* A received Certificate: whether its context is empty, whether an entry
\* has a duplicate or unknown extension, whether the chain is empty, and
\* the end-entity SCT list (None, "valid", "invalid").
Certificate(context_empty, bad_ext, chain_empty, scts) ==
    [type |-> "Certificate", context_empty |-> context_empty, bad_ext |-> bad_ext,
     chain_empty |-> chain_empty, scts |-> scts]

\* A received CertificateVerify with the verifier's answers to the chain
\* and to the signature: "Ok", or the kind of error it returns.
CertificateVerify(cert_result, sig_result) ==
    [type |-> "CertificateVerify", cert_result |-> cert_result, sig_result |-> sig_result]

\* hs::send_cert_error_alert
send_cert_error_alert(c, err) ==
    IF err = "BadEncoding" THEN send_fatal_alert(c, "DecodeError")
    ELSE IF err = "PeerMisbehavedError" THEN send_fatal_alert(c, "IllegalParameter")
    ELSE send_fatal_alert(c, "BadCertificate")

\* Fault: after a CertificateRequest the client waits for a Certificate or
\* another CertificateRequest.
after_certificate_request_again == "ExpectCertificateOrCertReq"

\* The state ExpectCertificateRequest::handle returns.
after_certificate_request == "ExpectCertificate"

\* ExpectCertificateRequest::handle
ExpectCertificateRequest_handle(cfg, c, s, m) ==
    IF m.type # "CertificateRequest" THEN inappropriate(c, s, m)
    ELSE
    LET s1 == [s EXCEPT !.transcript = add_message(@, "server", "CertificateRequest")] IN
    IF ~m.context_empty
    THEN Err(send_fatal_alert(c, "DecodeError"), s1, <<"CorruptMessagePayload", "Handshake">>)
    ELSE IF ~m.compat_sigschemes
    THEN Err(send_fatal_alert(c, "HandshakeFailure"), s1,
             <<"PeerIncompatibleError", "server sent bad certreq schemes">>)
    ELSE Ok(c, [s1 EXCEPT
                   !.name = after_certificate_request,
                   !.client_auth = ClientAuth(TRUE, m.resolved \in {"cert", "signer"},
                                              m.resolved = "signer")])

\* Fault: the server's CertificateVerify is not waited for.
after_certificate_skipping_verify == "ExpectFinished"

\* The state ExpectCertificate::handle returns.
after_certificate == "ExpectCertificateVerify"

\* ExpectCertificate::handle
ExpectCertificate_handle(cfg, c, s, m) ==
    IF m.type # "Certificate" THEN inappropriate(c, s, m)
    ELSE
    LET s1 == [s EXCEPT !.transcript = add_message(@, "server", "Certificate")] IN
    IF ~m.context_empty
    THEN Err(send_fatal_alert(c, "DecodeError"), s1, <<"CorruptMessagePayload", "Handshake">>)
    ELSE IF m.bad_ext
    THEN Err(send_fatal_alert(c, "UnsupportedExtension"), s1,
             <<"PeerMisbehavedError", "bad cert chain extensions">>)
    ELSE IF m.scts = "invalid"
    THEN Err(c, s1, <<"PeerMisbehavedError", "server sent invalid SCT list">>)
    ELSE IF m.scts # None /\ ~s1.may_send_sct_list
    THEN Err(c, s1, <<"PeerMisbehavedError", "server sent unsolicited SCT list">>)
    ELSE Ok(c, [s1 EXCEPT
                   !.name = after_certificate,
                   !.may_send_sct_list = FALSE,
                   !.server_cert = [cert_chain |-> IF m.chain_empty THEN "empty"
                                                   ELSE "chain"]])

\* ExpectCertificateOrCertReq::handle
ExpectCertificateOrCertReq_handle(cfg, c, s, m) ==
    IF m.type \notin {"Certificate", "CertificateRequest"} THEN inappropriate(c, s, m)
    ELSE IF m.type = "Certificate"
    THEN ExpectCertificate_handle(cfg, c, [s EXCEPT !.name = "ExpectCertificate",
                                                    !.client_auth = NoClientAuth], m)
    ELSE ExpectCertificateRequest_handle(cfg, c,
                                         [s EXCEPT !.name = "ExpectCertificateRequest"], m)

\* ExpectCertificateVerify::handle
ExpectCertificateVerify_handle(cfg, c, s, m) ==
    IF m.type # "CertificateVerify" THEN inappropriate(c, s, m)
    ELSE IF s.server_cert.cert_chain = "empty"
    THEN Err(c, s, <<"NoCertificatesPresented", "">>)
    ELSE IF m.cert_result # "Ok"
    THEN Err(send_cert_error_alert(c, m.cert_result), s, <<m.cert_result, "verify_server_cert">>)
    ELSE IF m.sig_result # "Ok"
    THEN Err(send_cert_error_alert(c, m.sig_result), s,
             <<m.sig_result, "verify_tls13_signature">>)
    ELSE Ok([c EXCEPT !.server_cert_chain = s.server_cert.cert_chain],
            [s EXCEPT
                !.name = "ExpectFinished",
                !.transcript = add_message(@, "server", "CertificateVerify"),
                !.server_cert = NoServerCert,
                !.cert_verified = "Verified",
                !.sig_verified = "Verified"])

(* ------------------------------------------------------------------ *)
(* Finished                                                           *)
(* ------------------------------------------------------------------ *)

\* A received Finished: whether its verify-data equals the value recomputed
\* from the handshake schedule and the transcript hash, whether the record
\* layer is aligned when the application keys are to be installed, and
\* whether the client's signer (if any) manages to sign.
Finished(verify_ok, aligned, sign_ok) ==
    [type |-> "Finished", verify_ok |-> verify_ok, aligned |-> aligned, sign_ok |-> sign_ok]

\* A state's transcript and the context, after an emit_* helper.
Emitted(transcript, c) == [transcript |-> transcript, cx |-> c]

\* Fault: EndOfEarlyData is emitted over QUIC too.
emit_end_of_early_data_over_quic(transcript, c) ==
    Emitted(add_message(transcript, "client", "EndOfEarlyData"),
            send_msg(c, "EndOfEarlyData", TLSv1_3, TRUE, None))

\* emit_end_of_early_data_tls13: nothing over QUIC.
emit_end_of_early_data_tls13(transcript, c) ==
    IF c.quic THEN Emitted(transcript, c)
    ELSE Emitted(add_message(transcript, "client", "EndOfEarlyData"),
                 send_msg(c, "EndOfEarlyData", TLSv1_3, TRUE, None))

\* Fault: no Certificate is emitted.
emit_certificate_skipped(transcript, client_auth, c) == Emitted(transcript, c)

\* emit_certificate_tls13: the credential's chain, or no entries.
emit_certificate_tls13(transcript, client_auth, c) ==
    Emitted(add_message(transcript, "client", "Certificate"),
            send_msg(c, "Certificate", TLSv1_3, TRUE,
                     IF client_auth.certkey THEN "entries" ELSE "empty"))

\* emit_certverify_tls13 when a signer was chosen and signing succeeds.
emit_certverify_tls13(transcript, c) ==
    Emitted(add_message(transcript, "client", "CertificateVerify"),
            send_msg(c, "CertificateVerify", TLSv1_3, TRUE, None))

\* Fault: the client's Finished is sent but not hashed.
emit_finished_unhashed(transcript, c) ==
    Emitted(transcript, send_msg(c, "Finished", TLSv1_3, TRUE, None))

\* emit_finished_tls13
emit_finished_tls13(transcript, c) ==
    Emitted(add_message(transcript, "client", "Finished"),
            send_msg(c, "Finished", TLSv1_3, TRUE, None))

\* common.start_traffic()
start_traffic(c) == note([c EXCEPT !.may_send_application_data = TRUE], "start_traffic")

\* Fault: the Finished is hashed before its verify-data is compared.
finished_mismatch_after_hashing(c, s) ==
    Err(send_fatal_alert(c, "DecryptError"),
        [s EXCEPT !.transcript = add_message(@, "server", "Finished")],
        <<"DecryptError", "">>)

\* The verify-data of the server's Finished does not match: DecryptError
\* alert and Error::DecryptError.
finished_mismatch(c, s) ==
    Err(send_fatal_alert(c, "DecryptError"), s, <<"DecryptError", "">>)

\* Fault: the application traffic secrets are derived from the transcript as
\* it stands when the schedule moves on.
traffic_schedule_from_latest_hash(key_schedule, hash_after_handshake, handshake_hash) ==
    KeySchedule("Traffic", key_schedule.from, key_schedule.hs_hash, handshake_hash,
                handshake_hash)

\* into_traffic_with_client_finished_pending(hash_after_handshake), which
\* derives the application traffic secrets, then
\* sign_client_finish(handshake_hash) on the transcript hash of that moment.
traffic_schedule(key_schedule, hash_after_handshake, handshake_hash) ==
    KeySchedule("Traffic", key_schedule.from, key_schedule.hs_hash, hash_after_handshake,
                handshake_hash)

\* ExpectFinished::handle, last part: the client's Finished, the alignment
\* check, the application keys, user traffic and the traffic state.  certv
\* is the transcript and the context after the client-auth messages.
ExpectFinished_into_traffic(c, s, m, hash_after_handshake, certv) ==
    LET fin == emit_finished_tls13(certv.transcript, certv.cx) IN
    IF ~handshake_aligned(m)
    THEN unaligned(fin.cx, [s EXCEPT !.transcript = fin.transcript])
    ELSE Ok(start_traffic(
                set_message_encrypter(
                    set_message_decrypter(note(fin.cx, "check_aligned_handshake"),
                                          Key("ApplicationTraffic", s.key_schedule.from, 0)),
                    Key("ApplicationTraffic", s.key_schedule.from, 0))),
            [BlankState EXCEPT
                !.name = IF c.quic THEN "ExpectQuicTraffic" ELSE "ExpectTraffic",
                !.suite = s.suite,
                !.transcript = fin.transcript,
                !.key_schedule = traffic_schedule(s.key_schedule, hash_after_handshake,
                                                  certv.transcript),
                !.want_write_key_update = FALSE,
                !.cert_verified = s.cert_verified,
                !.sig_verified = s.sig_verified,
                !.fin_verified = "Verified"])

\* ExpectFinished::handle, middle part: the client's Certificate and
\* CertificateVerify when the server asked for client authentication.  eoed
\* is the transcript and the context after the EndOfEarlyData step.
ExpectFinished_client_auth(c, s, m, hash_after_handshake, eoed) ==
    LET cert == IF s.client_auth.requested
                THEN emit_certificate_tls13(eoed.transcript, s.client_auth, eoed.cx)
                ELSE eoed
    IN
    IF s.client_auth.requested /\ s.client_auth.signer /\ ~m.sign_ok
    THEN Err(cert.cx, [s EXCEPT !.transcript = cert.transcript], <<"General", "signing failed">>)
    ELSE ExpectFinished_into_traffic(c, s, m, hash_after_handshake,
             IF s.client_auth.requested /\ s.client_auth.signer
             THEN emit_certverify_tls13(cert.transcript, cert.cx)
             ELSE cert)

\* ExpectFinished::handle, after the server's Finished is hashed
\* (transcript1): EndOfEarlyData, still under the early key, then the
\* handshake key becomes the encrypter.
ExpectFinished_end_of_early_data(c, s, m, transcript1) ==
    LET eoed == IF c.early_traffic THEN emit_end_of_early_data_tls13(transcript1, c)
                ELSE Emitted(transcript1, c)
    IN
    IF c.early_traffic /\ c.early_data # "Accepted"
    THEN Panic([eoed.cx EXCEPT !.early_traffic = FALSE],
               [s EXCEPT !.transcript = eoed.transcript], "EarlyData::finished")
    ELSE ExpectFinished_client_auth(c, s, m, transcript1,
             IF c.early_traffic
             THEN Emitted(eoed.transcript,
                          set_message_encrypter(
                              [eoed.cx EXCEPT !.early_traffic = FALSE,
                                              !.early_data = "AcceptedFinished"],
                              Key("HandshakeTraffic", s.key_schedule.from, 0)))
             ELSE eoed)

\* ExpectFinished::handle
ExpectFinished_handle(cfg, c, s, m) ==
    IF m.type # "Finished" THEN inappropriate(c, s, m)
    ELSE IF ~m.verify_ok
    THEN finished_mismatch(c, s)
    ELSE ExpectFinished_end_of_early_data(c, s, m,
                                          add_message(s.transcript, "server", "Finished"))

(* ------------------------------------------------------------------ *)
(* The states a handshake message can arrive in                       *)
(* ------------------------------------------------------------------ *)

PreTrafficStates ==
    {"ExpectServerHelloOrHelloRetryRequest", "ExpectServerHello",
     "ExpectEncryptedExtensions", "ExpectCertificateOrCertReq", "ExpectCertificate",
     "ExpectCertificateVerify", "ExpectFinished"}

(* ------------------------------------------------------------------ *)
(* Messages the server may send                                       *)
(* ------------------------------------------------------------------ *)

\* ServerHellos: every header (legacy version, SupportedVersions,
\* compression, duplicate extension) around an otherwise well-formed body;
\* well-formed TLS 1.3 headers around every suite, key share and PSK
\* selection, with a failing key exchange or an unaligned record layer, and
\* with an extension TLS 1.3 does not allow in the clear; TLS 1.2 headers
\* with every suite and ALPN answer, point formats and RenegotiationInfo.
ServerHelloHeaders(offered) ==
    {ServerHello(l, sv, comp, dup,
                 IF (IF l = TLSv1_2 /\ sv # None THEN sv ELSE l) = TLSv1_3
                 THEN TLS13_AES_128_GCM_SHA256 ELSE TLS_ECDHE_RSA_WITH_AES_128_GCM_SHA256,
                 offered, None, None, None, None, TRUE, TRUE) :
        l \in {TLSv1_1, TLSv1_2, TLSv1_3}, sv \in {None, TLSv1_2, TLSv1_3},
        comp \in BOOLEAN, dup \in BOOLEAN}

ServerHellos13(offered) ==
    {ServerHello(TLSv1_2, TLSv1_3, TRUE, FALSE, suite, ks, psk, None, None, None, TRUE, TRUE) :
        suite \in WireSuites, ks \in {None, X25519, secp256r1}, psk \in {None, "0", "1"}}
    \cup {ServerHello(TLSv1_2, TLSv1_3, TRUE, FALSE, suite, offered, psk, None, None, None,
                      ok[1], ok[2]) :
            suite \in {TLS13_AES_128_GCM_SHA256, TLS13_AES_256_GCM_SHA384},
            psk \in {None, "0"}, ok \in {<<FALSE, TRUE>>, <<TRUE, FALSE>>}}
    \cup {ServerHello(TLSv1_2, TLSv1_3, TRUE, FALSE, TLS13_AES_128_GCM_SHA256, offered, None,
                      ecp, alpn, other, TRUE, TRUE) :
            ecp \in {None, "Uncompressed"}, alpn \in {None, "h2"},
            other \in {None, "RenegotiationInfo", "Heartbeat"}}

ServerHellos12 ==
    {ServerHello(TLSv1_2, None, TRUE, FALSE, suite, None, None, None, alpn, None, TRUE, TRUE) :
        suite \in {TLS_ECDHE_RSA_WITH_AES_128_GCM_SHA256, TLS13_AES_128_GCM_SHA256,
                   TLS_RSA_WITH_NULL_SHA},
        alpn \in {None} \cup WireAlpn}
    \cup {ServerHello(TLSv1_2, None, TRUE, FALSE, TLS_ECDHE_RSA_WITH_AES_128_GCM_SHA256,
                      None, None, ecp, None, other, TRUE, TRUE) :
            ecp \in {None, "Uncompressed", "Compressed"},
            other \in {None, "RenegotiationInfo", "Heartbeat"}}

ServerHellos(offered) ==
    ServerHelloHeaders(offered) \cup ServerHellos13(offered) \cup ServerHellos12

\* HelloRetryRequests: every cookie and requested group with a TLS 1.3
\* suite; a well-formed one naming each other suite; and every combination
\* of an unknown extension, a duplicate extension, the version selected and
\* the alignment of the record layer; one whose fresh key share cannot be
\* generated.
HelloRetryRequests ==
    {HelloRetryRequest(cookie, g, FALSE, FALSE, TLSv1_3, TLS13_AES_128_GCM_SHA256, TRUE, TRUE) :
        cookie \in {None, "", "cookie"}, g \in {None} \cup WireGroups}
    \cup {HelloRetryRequest("cookie", None, FALSE, FALSE, TLSv1_3, suite, TRUE, TRUE) :
            suite \in WireSuites}
    \cup {HelloRetryRequest("cookie", None, unknown, dup, sv, TLS13_AES_128_GCM_SHA256,
                            aligned, TRUE) :
            unknown \in BOOLEAN, dup \in BOOLEAN, sv \in {None, TLSv1_2, TLSv1_3},
            aligned \in BOOLEAN}
    \cup {HelloRetryRequest(None, g, FALSE, FALSE, TLSv1_3, TLS13_AES_128_GCM_SHA256,
                            TRUE, FALSE) : g \in {X25519, secp256r1}}

\* EncryptedExtensions: every combination of a duplicate, the ALPN answer,
\* early_data and the QUIC transport parameters; and each single extension
\* that is plaintext-only, not allowed in TLS 1.3, or never offered.
EncryptedExtensionsMsgs ==
    {EncryptedExtensions(dup, alpn, early, qp, None) :
        dup \in BOOLEAN, alpn \in {None} \cup WireAlpn, early \in BOOLEAN, qp \in BOOLEAN}
    \cup {EncryptedExtensions(FALSE, None, FALSE, qp, other) :
            qp \in BOOLEAN, other \in {"KeyShare", "ECPointFormats", "Heartbeat"}}

CertificateRequests ==
    {CertificateRequest(ctx, compat, resolved) :
        ctx \in BOOLEAN, compat \in BOOLEAN, resolved \in {"none", "cert", "signer"}}

Certificates ==
    {Certificate(ctx, bad, FALSE, None) : ctx \in BOOLEAN, bad \in BOOLEAN}
    \cup {Certificate(TRUE, FALSE, empty, scts) :
            empty \in BOOLEAN, scts \in {None, "valid", "invalid"}}

CertificateVerifies ==
    {CertificateVerify(cert, sig) :
        cert \in {"Ok", "BadEncoding", "PeerMisbehavedError", "WebPkiError"},
        sig \in {"Ok", "WebPkiError"}}

FinishedMsgs ==
    {Finished(verify, aligned, sign) :
        verify \in BOOLEAN, aligned \in BOOLEAN, sign \in BOOLEAN}

\* One message of each type, for a state that rejects the type unread.
Sample(type) ==
    CASE type = "ServerHello" ->
            ServerHello(TLSv1_2, TLSv1_3, TRUE, FALSE, TLS13_AES_128_GCM_SHA256, X25519,
                        None, None, None, None, TRUE, TRUE)
      [] type = "HelloRetryRequest" ->
            HelloRetryRequest("cookie", None, FALSE, FALSE, TLSv1_3,
                              TLS13_AES_128_GCM_SHA256, TRUE, TRUE)
      [] type = "EncryptedExtensions" -> EncryptedExtensions(FALSE, None, FALSE, FALSE, None)
      [] type = "CertificateRequest" -> CertificateRequest(TRUE, TRUE, "none")
      [] type = "Certificate" -> Certificate(TRUE, FALSE, FALSE, None)
      [] type = "CertificateVerify" -> CertificateVerify("Ok", "Ok")
      [] type = "Finished" -> Finished(TRUE, TRUE, TRUE)

\* The message types a pre-traffic state reads; any other is rejected on
\* its type alone.
Accepts(name) ==
    CASE name = "ExpectServerHelloOrHelloRetryRequest" -> {"ServerHello", "HelloRetryRequest"}
      [] name = "ExpectServerHello" -> {"ServerHello"}
      [] name = "ExpectEncryptedExtensions" -> {"EncryptedExtensions"}
      [] name = "ExpectCertificateOrCertReq" -> {"Certificate", "CertificateRequest"}
      [] name = "ExpectCertificate" -> {"Certificate"}
      [] name = "ExpectCertificateVerify" -> {"CertificateVerify"}
      [] name = "ExpectFinished" -> {"Finished"}
      [] OTHER -> {}

\* The messages of a type that may arrive in state s.
Messages(type, all, s) == IF type \in Accepts(s.name) THEN all ELSE {Sample(type)}

\* Everything that may arrive in state s: the handshake messages and a
\* record that is no handshake message (application data).
Arrivals(s) ==
    Messages("ServerHello",
             ServerHellos(IF s.offered_key_share = NoKeyShare THEN X25519
                          ELSE s.offered_key_share.group),
             s)
    \cup Messages("HelloRetryRequest", HelloRetryRequests, s)
    \cup Messages("EncryptedExtensions", EncryptedExtensionsMsgs, s)
    \cup Messages("CertificateRequest", CertificateRequests, s)
    \cup Messages("Certificate", Certificates, s)
    \cup Messages("CertificateVerify", CertificateVerifies, s)
    \cup Messages("Finished", FinishedMsgs, s)
    \cup {[type |-> "ApplicationData"]}

(* ------------------------------------------------------------------ *)
(* The states before the traffic state                                *)
(* ------------------------------------------------------------------ *)

\* What `accepted` keeps of a message.
Summary(m) ==
    [type |-> m.type,
     psk |-> IF m.type = "ServerHello" THEN m.psk ELSE None,
     early_data |-> IF m.type = "EncryptedExtensions" THEN m.early_data ELSE FALSE,
     resolved |-> IF m.type = "CertificateRequest" THEN m.resolved ELSE None,
     verified |-> CASE m.type = "Finished" -> m.verify_ok
                    [] m.type = "CertificateVerify" ->
                          m.cert_result = "Ok" /\ m.sig_result = "Ok"
                    [] OTHER -> FALSE]

\* The connection keeps the outcome r of handing message m to its state
\* object: the successor, or the error.
Deliver(r, m) ==
    /\ cx' = r.cx
    /\ st' = r.st
    /\ session_storage' = r.storage
    /\ last_msg' = m
    /\ accepted' = IF r.st.name = "Error" THEN accepted ELSE Append(accepted, Summary(m))
    /\ UNCHANGED <<config, now>>
    /\ UNCHANGED second

\* One action for each state object the connection may hold before the
\* traffic state: a message arrives and the state's handle consumes it.
ExpectServerHelloOrHelloRetryRequest ==
    /\ st.name = "ExpectServerHelloOrHelloRetryRequest"
    /\ \E m \in Arrivals(st) :
          Deliver(ExpectServerHelloOrHelloRetryRequest_handle(
                      config, recv(cx, m), st, session_storage, m), m)

ExpectServerHello ==
    /\ st.name = "ExpectServerHello"
    /\ \E m \in Arrivals(st) :
          Deliver(ExpectServerHello_handle(config, recv(cx, m), st, session_storage, m), m)

ExpectEncryptedExtensions ==
    /\ st.name = "ExpectEncryptedExtensions"
    /\ \E m \in Arrivals(st) :
          Deliver(Out(ExpectEncryptedExtensions_handle(config, recv(cx, m), st, m),
                      session_storage), m)

ExpectCertificateOrCertReq ==
    /\ st.name = "ExpectCertificateOrCertReq"
    /\ \E m \in Arrivals(st) :
          Deliver(Out(ExpectCertificateOrCertReq_handle(config, recv(cx, m), st, m),
                      session_storage), m)

ExpectCertificate ==
    /\ st.name = "ExpectCertificate"
    /\ \E m \in Arrivals(st) :
          Deliver(Out(ExpectCertificate_handle(config, recv(cx, m), st, m),
                      session_storage), m)

ExpectCertificateVerify ==
    /\ st.name = "ExpectCertificateVerify"
    /\ \E m \in Arrivals(st) :
          Deliver(Out(ExpectCertificateVerify_handle(config, recv(cx, m), st, m),
                      session_storage), m)

ExpectFinished ==
    /\ st.name = "ExpectFinished"
    /\ \E m \in Arrivals(st) :
          Deliver(Out(ExpectFinished_handle(config, recv(cx, m), st, m),
                      session_storage), m)

Next ==
    \/ StartHandshake
    \/ ExpectServerHelloOrHelloRetryRequest
    \/ ExpectServerHello
    \/ ExpectEncryptedExtensions
    \/ ExpectCertificateOrCertReq
    \/ ExpectCertificate
    \/ ExpectCertificateVerify
    \/ ExpectFinished

Spec == Init /\ [][Next]_vars

(* ------------------------------------------------------------------ *)
(* The traffic state                                                  *)
(* ------------------------------------------------------------------ *)

\* Largest number of records the traffic state receives and writes.
MaxTrafficSteps == 4

\* Stands for max_early_data_size 0xffff_ffff, the one non-zero value QUIC
\* allows: a value above every other allowance of the model.
QuicEarlyData == MaxEarlyData + 1

\* A received KeyUpdate: its request ("UpdateNotRequested",
\* "UpdateRequested", or a value that is neither) and whether the record
\* layer is aligned when it is handled.
KeyUpdate(request, aligned) == [type |-> "KeyUpdate", request |-> request, aligned |-> aligned]

\* get_max_early_data_size() of a ticket without the early_data extension.
NoEarlyData == -1

\* A received NewSessionTicket (TLS 1.3): the ticket, its lifetime, its
\* early_data extension (NoEarlyData when absent), whether the system clock
\* can be read and whether the storage takes the entry.
NewSessionTicket(ticket, lifetime, max_early_data_size, time_ok, put_ok) ==
    [type |-> "NewSessionTicket", ticket |-> ticket, lifetime |-> lifetime,
     max_early_data_size |-> max_early_data_size, time_ok |-> time_ok, put_ok |-> put_ok]

\* inappropriate_message: a record of a content type the state does not
\* accept.
inappropriate_message(c, s, m) == Err(c, s, <<"InappropriateMessage", m.type>>)

\* Whether a record carries a handshake message.
is_handshake(m) == m.type \notin {"ApplicationData", "ChangeCipherSpec"}

\* Fault: the ticket is stored without its early-data allowance.
new_session_value_without_early_data(suite, nst, time_now) ==
    SessionValue(TLSv1_3, suite, nst.ticket, 0, time_now, nst.lifetime)

\* handle_new_ticket_tls13: the value built from the ticket: TLS 1.3, the
\* connection's suite, the ticket, the time it was received, the lifetime
\* and the early-data allowance (0 without the extension).
new_session_value(suite, nst, time_now) ==
    SessionValue(TLSv1_3, suite, nst.ticket,
                 IF nst.max_early_data_size = NoEarlyData THEN 0 ELSE nst.max_early_data_size,
                 time_now, nst.lifetime)

\* session_storage.put(session_for_server_name, ticket); worked is what the
\* storage answers.
put_session(storage, value, worked) ==
    IF worked THEN [storage EXCEPT !.session = value] ELSE storage

\* Fault: a ticket the storage refused ends the connection.
ticket_saved_or_fail(c, s, worked) ==
    IF worked THEN Ok(c, s) ELSE Err(c, s, <<"General", "Ticket not saved">>)

\* handle_new_ticket_tls13, after the put: its answer is only logged.
ticket_saved(c, s, worked) == Ok(c, s)

\* ExpectTraffic::handle_new_ticket_tls13 at time t
handle_new_ticket_tls13(cfg, c, s, storage, t, nst) ==
    IF ~nst.time_ok THEN Out(Err(c, s, <<"FailedToGetCurrentTime", "">>), storage)
    ELSE IF c.quic /\ nst.max_early_data_size \notin {NoEarlyData, 0, QuicEarlyData}
    THEN Out(Err(c, s, <<"PeerMisbehavedError", "invalid max_early_data_size">>), storage)
    ELSE Out(ticket_saved(c, s, nst.put_ok),
             put_session(storage, new_session_value(s.suite, nst, t), nst.put_ok))

\* Fault: every KeyUpdate received is answered with one.
want_write_key_update_always(want_write_key_update, kur) == TRUE

\* handle_key_update, the match on the request: UpdateRequested sets
\* want_write_key_update, UpdateNotRequested leaves it.
want_write_key_update_after(want_write_key_update, kur) ==
    IF kur = "UpdateRequested" THEN TRUE ELSE want_write_key_update

\* ExpectTraffic::handle_key_update
handle_key_update(c, s, m) ==
    IF c.quic
    THEN Err(send_fatal_alert(c, "UnexpectedMessage"), s,
             <<"PeerMisbehavedError", "KeyUpdate received in QUIC connection">>)
    ELSE IF ~handshake_aligned(m) THEN unaligned(c, s)
    ELSE IF m.request \notin {"UpdateNotRequested", "UpdateRequested"}
    THEN Err(send_fatal_alert(note(c, "check_aligned_handshake"), "IllegalParameter"), s,
             <<"CorruptMessagePayload", "Handshake">>)
    ELSE Ok(set_message_decrypter(
                note(c, "check_aligned_handshake"),
                Key("ApplicationTraffic", s.key_schedule.from, s.key_schedule.server_gen + 1)),
            [s EXCEPT !.want_write_key_update = want_write_key_update_after(@, m.request),
                      !.key_schedule.server_gen = @ + 1])

\* ExpectTraffic::handle
ExpectTraffic_handle(cfg, c, s, storage, t, m) ==
    IF m.type = "ApplicationData"
    THEN Out(Ok(note(c, "take_received_plaintext"), s), storage)
    ELSE IF m.type = "NewSessionTicket" THEN handle_new_ticket_tls13(cfg, c, s, storage, t, m)
    ELSE IF m.type = "KeyUpdate" THEN Out(handle_key_update(c, s, m), storage)
    ELSE IF is_handshake(m) THEN Out(inappropriate(c, s, m), storage)
    ELSE Out(inappropriate_message(c, s, m), storage)

\* ExpectQuicTraffic::handle
ExpectQuicTraffic_handle(cfg, c, s, storage, t, m) ==
    IF m.type = "NewSessionTicket" THEN handle_new_ticket_tls13(cfg, c, s, storage, t, m)
    ELSE IF is_handshake(m) THEN Out(inappropriate(c, s, m), storage)
    ELSE Out(inappropriate_message(c, s, m), storage)

\* Fault: the request stays pending after it was answered.
perhaps_write_key_update_keeping_request(c, s) ==
    IF s.want_write_key_update
    THEN Ok(set_message_encrypter(
                send_msg(c, "KeyUpdate", TLSv1_3, TRUE, "update_not_requested"),
                Key("ApplicationTraffic", s.key_schedule.from, s.key_schedule.client_gen + 1)),
            [s EXCEPT !.key_schedule.client_gen = @ + 1])
    ELSE Ok(c, s)

\* ExpectTraffic::perhaps_write_key_update
perhaps_write_key_update(c, s) ==
    IF s.want_write_key_update
    THEN Ok(set_message_encrypter(
                send_msg(c, "KeyUpdate", TLSv1_3, TRUE, "update_not_requested"),
                Key("ApplicationTraffic", s.key_schedule.from, s.key_schedule.client_gen + 1)),
            [s EXCEPT !.want_write_key_update = FALSE,
                      !.key_schedule.client_gen = @ + 1])
    ELSE Ok(c, s)

\* The connection writes application data: the state may first answer a
\* KeyUpdate request, then the data goes out under the write key.
send_some_plaintext(c, s) ==
    LET r == perhaps_write_key_update(note(c, "write"), s) IN
    Ok(send_msg(r.cx, "ApplicationData", TLSv1_2, TRUE, None), r.st)

\* HandleState for Box<dyn State>: the state object the connection holds
\* handles the message (at time t).
handle(cfg, c, s, storage, t, m) ==
    CASE s.name = "ExpectServerHelloOrHelloRetryRequest" ->
            ExpectServerHelloOrHelloRetryRequest_handle(cfg, c, s, storage, m)
      [] s.name = "ExpectServerHello" -> ExpectServerHello_handle(cfg, c, s, storage, m)
      [] s.name = "ExpectEncryptedExtensions" ->
            Out(ExpectEncryptedExtensions_handle(cfg, c, s, m), storage)
      [] s.name = "ExpectCertificateOrCertReq" ->
            Out(ExpectCertificateOrCertReq_handle(cfg, c, s, m), storage)
      [] s.name = "ExpectCertificate" -> Out(ExpectCertificate_handle(cfg, c, s, m), storage)
      [] s.name = "ExpectCertificateVerify" ->
            Out(ExpectCertificateVerify_handle(cfg, c, s, m), storage)
      [] s.name = "ExpectFinished" -> Out(ExpectFinished_handle(cfg, c, s, m), storage)
      [] s.name = "ExpectTraffic" -> ExpectTraffic_handle(cfg, c, s, storage, t, m)
      [] s.name = "ExpectQuicTraffic" -> ExpectQuicTraffic_handle(cfg, c, s, storage, t, m)

\* What a server that follows the protocol sends to a connection in state
\* s: it accepts the PSK offered or not, accepts the early data or not, and
\* asks for client authentication or not.
ServerFlight(c, s) ==
    CASE s.name \in {"ExpectServerHelloOrHelloRetryRequest", "ExpectServerHello"} ->
            {ServerHello(TLSv1_2, TLSv1_3, TRUE, FALSE,
                         IF s.resuming_session # NoSession /\ s.resuming_session.version = TLSv1_3
                         THEN s.resuming_session.suite ELSE TLS13_AES_128_GCM_SHA256,
                         s.offered_key_share.group, psk, None, None, None, TRUE, TRUE) :
                psk \in IF s.resuming_session # NoSession /\ s.resuming_session.version = TLSv1_3
                        THEN {None, "0"} ELSE {None}}
      [] s.name = "ExpectEncryptedExtensions" ->
            {EncryptedExtensions(FALSE, None, early, c.quic, None) :
                early \in IF c.early_data = "Ready" /\ s.resuming_session # NoSession
                          THEN BOOLEAN ELSE {FALSE}}
      [] s.name = "ExpectCertificateOrCertReq" ->
            {Certificate(TRUE, FALSE, FALSE, None), CertificateRequest(TRUE, TRUE, "signer")}
      [] s.name = "ExpectCertificate" -> {Certificate(TRUE, FALSE, FALSE, None)}
      [] s.name = "ExpectCertificateVerify" -> {CertificateVerify("Ok", "Ok")}
      [] s.name = "ExpectFinished" -> {Finished(TRUE, TRUE, TRUE)}
      [] OTHER -> {}

\* What may arrive in the traffic state: KeyUpdates of each request, aligned
\* or not; tickets with and without an early-data allowance, with a clock
\* that cannot be read and with a storage that refuses the entry;
\* application data; a handshake message and a record the state does not
\* accept.
TrafficArrivals ==
    {KeyUpdate(r, TRUE) : r \in {"UpdateNotRequested", "UpdateRequested", "Unknown"}}
    \cup {KeyUpdate("UpdateRequested", FALSE)}
    \cup {NewSessionTicket("ticket1", 1, e, TRUE, TRUE) : e \in {NoEarlyData, MaxEarlyData}}
    \cup {NewSessionTicket("ticket1", 1, NoEarlyData, ok[1], ok[2]) :
            ok \in {<<FALSE, TRUE>>, <<TRUE, FALSE>>}}
    \cup {[type |-> "ApplicationData"], Sample("Finished"), [type |-> "ChangeCipherSpec"]}

\* The records the traffic state received and wrote so far.
TrafficSteps(c) ==
    Cardinality({i \in 1..Len(c.log) :
                    /\ c.log[i].ev \in {"recv", "write"}
                    /\ \E j \in 1..(i - 1) : c.log[j].ev = "start_traffic"})

\* The connections that are followed into the traffic state: TLS 1.3 with
\* tickets and early data enabled, over TCP or QUIC, with an empty storage
\* or a cached ticket that allows early data.
TrafficScenarios ==
    {<<Config({TLSv1_3}, TRUE, TRUE, TRUE), quic, [session |-> v, hint |-> None], 1>> :
        quic \in BOOLEAN, v \in {NoSession, EarlyDataTicket}}

InitTraffic ==
    /\ \E sc \in TrafficScenarios :
          /\ config = sc[1]
          /\ cx = BlankContext(sc[2])
          /\ session_storage = sc[3]
          /\ now = sc[4]
    /\ st = BlankState
    /\ last_msg = NoMsg
    /\ accepted = <<>>
    /\ cx2 = BlankContext(FALSE)
    /\ st2 = BlankState
    /\ heard = <<<<>>, <<>>>>
    /\ builder = config_builder

\* The handshake with a server that follows the protocol.
Handshake ==
    /\ st.name \in PreTrafficStates
    /\ \E m \in ServerFlight(cx, st) :
          Deliver(handle(config, recv(cx, m), st, session_storage, now, m), m)

\* impl State for ExpectTraffic: a record arrives.
ExpectTraffic ==
    /\ st.name = "ExpectTraffic"
    /\ TrafficSteps(cx) < MaxTrafficSteps
    /\ \E m \in TrafficArrivals :
          Deliver(ExpectTraffic_handle(config, recv(cx, m), st, session_storage, now, m), m)

\* impl State for ExpectQuicTraffic: a record arrives.
ExpectQuicTraffic ==
    /\ st.name = "ExpectQuicTraffic"
    /\ TrafficSteps(cx) < MaxTrafficSteps
    /\ \E m \in TrafficArrivals :
          Deliver(ExpectQuicTraffic_handle(config, recv(cx, m), st, session_storage, now, m), m)

\* The user writes application data on an established connection.
Write ==
    /\ st.name = "ExpectTraffic"
    /\ TrafficSteps(cx) < MaxTrafficSteps
    /\ LET r == send_some_plaintext(cx, st) IN
          /\ cx' = r.cx
          /\ st' = r.st
    /\ UNCHANGED <<config, session_storage, now, last_msg, accepted>>
    /\ UNCHANGED second

NextTraffic ==
    \/ StartHandshake
    \/ Handshake
    \/ ExpectTraffic
    \/ ExpectQuicTraffic
    \/ Write

\* A connection from its creation through the handshake with a server that
\* follows the protocol and on into the traffic state.
SpecTraffic == InitTraffic /\ [][NextTraffic]_vars

(* ------------------------------------------------------------------ *)
(* Building a configuration                                           *)
(* ------------------------------------------------------------------ *)

\* The lists of at most MaxListLen elements of a set.
Lists(S) == UNION {[1..n -> S] : n \in 0..MaxListLen}

\* What the connection variables hold while only the builder runs.
NoConnection ==
    /\ config = Config({TLSv1_2, TLSv1_3}, TRUE, TRUE, TRUE)
    /\ session_storage = [session |-> NoSession, hint |-> None]
    /\ now = 1
    /\ cx = BlankContext(FALSE)
    /\ st = BlankState
    /\ last_msg = NoMsg
    /\ accepted = <<>>
    /\ cx2 = BlankContext(FALSE)
    /\ st2 = BlankState
    /\ heard = <<<<>>, <<>>>>

InitBuilder == NoConnection /\ builder = config_builder

Building(next) ==
    /\ builder' = next
    /\ UNCHANGED <<config, session_storage, now, cx, st, last_msg, accepted, cx2, st2, heard>>

\* with_cipher_suites: any list of TLS 1.3 and TLS 1.2 suites.
WithCipherSuites ==
    /\ builder.stage = "ConfigWantsCipherSuites"
    /\ \E l \in Lists({TLS13_AES_128_GCM_SHA256, TLS13_AES_256_GCM_SHA384,
                       TLS_ECDHE_RSA_WITH_AES_128_GCM_SHA256}) :
          Building(with_cipher_suites(builder, l))

\* with_kx_groups: any list of groups.
WithKxGroups ==
    /\ builder.stage = "ConfigWantsKxGroups"
    /\ \E l \in Lists({X25519, secp256r1}) : Building(with_kx_groups(builder, l))

\* with_protocol_versions: any choice of versions.
WithProtocolVersions ==
    /\ builder.stage = "ConfigWantsVersions"
    /\ \E v \in SUBSET {TLSv1_2, TLSv1_3} : Building(with_protocol_versions(builder, v))

ForClient ==
    /\ builder.stage = "ConfigWantsPeerType"
    /\ Building(for_peer(builder, "ConfigWantsServerVerifier"))

ForServer ==
    /\ builder.stage = "ConfigWantsPeerType"
    /\ Building(for_peer(builder, "ConfigWantsClientVerifier"))

NextBuilder ==
    \/ WithCipherSuites
    \/ WithKxGroups
    \/ WithProtocolVersions
    \/ ForClient
    \/ ForServer

\* The builder from config_builder() to the answer of for_client or
\* for_server, for every selection of suites, groups and versions.
SpecBuilder == InitBuilder /\ [][NextBuilder]_vars

(* ------------------------------------------------------------------ *)
(* Two connections on one ClientConfig                                *)
(* ------------------------------------------------------------------ *)

\* Largest number of tickets a connection receives.
MaxTickets == 1

Connections == {1, 2}

\* Fault: the connections work on one context.
context_shared(k, c1, c2) == c1

\* The ClientContext of connection k: each connection owns its context.
context_of(k, c1, c2) == IF k = 1 THEN c1 ELSE c2

\* Connection k: its context and the state object it holds.
Conn(k) == [cx |-> context_of(k, cx, cx2), st |-> IF k = 1 THEN st ELSE st2]

\* What start_handshake takes in: the answers of session_storage.get for
\* the session and for the key-exchange hint, the time, and the
\* ClientConfig.
Started(cfg, storage, t) ==
    [type |-> "start_handshake", session |-> storage.session, hint |-> storage.hint,
     time |-> t, config |-> cfg]

\* Connection k keeps the outcome r of a transition that took `input` in.
Keep(k, r, input) ==
    /\ IF k = 1
       THEN cx' = r.cx /\ st' = r.st /\ UNCHANGED <<cx2, st2>>
       ELSE cx2' = r.cx /\ st2' = r.st /\ UNCHANGED <<cx, st>>
    /\ heard' = [heard EXCEPT ![k] = Append(@, input)]
    /\ UNCHANGED <<config, now, last_msg, accepted, builder>>

\* The n-th ticket the server issues to connection k; no two tickets are
\* equal.
TicketOf(k, n) == "ticket" \o ToString(k) \o "." \o ToString(n)

\* What the server sends to connection k: the flight of a server that
\* follows the protocol and asks for no client authentication, then a
\* ticket of its own for each connection, with or without an early-data
\* allowance, that the storage takes or refuses.
SharedArrivals(k, c, s) ==
    IF s.name \in PreTrafficStates
    THEN {m \in ServerFlight(c, s) : m.type # "CertificateRequest"}
    ELSE IF s.name = "ExpectTraffic" /\ TrafficSteps(c) < MaxTickets
    THEN {NewSessionTicket(TicketOf(k, TrafficSteps(c) + 1), 1, eo[1], TRUE, eo[2]) :
            eo \in {<<NoEarlyData, TRUE>>, <<MaxEarlyData, TRUE>>, <<NoEarlyData, FALSE>>}}
    ELSE {}

\* Two connections to one server are created from one ClientConfig (with
\* or without early data), on an empty session storage.
InitShared ==
    /\ \E early \in BOOLEAN : config = Config({TLSv1_2, TLSv1_3}, TRUE, early, TRUE)
    /\ session_storage = [session |-> NoSession, hint |-> None]
    /\ now = 0
    /\ cx = BlankContext(FALSE)
    /\ st = BlankState
    /\ cx2 = BlankContext(FALSE)
    /\ st2 = BlankState
    /\ heard = <<<<>>, <<>>>>
    /\ last_msg = NoMsg
    /\ accepted = <<>>
    /\ builder = config_builder

\* start_handshake of one of the connections.
Connect ==
    \E k \in Connections :
        /\ Conn(k).st.name = "Start"
        /\ Keep(k, start_handshake(config, session_storage, now, Conn(k).cx, TRUE),
                Started(config, session_storage, now))
        /\ session_storage' = storage_after_lookup(config, session_storage, now)

\* One of the connections handles a message of its server.
Receive ==
    \E k \in Connections :
        \E m \in SharedArrivals(k, Conn(k).cx, Conn(k).st) :
            LET r == handle(config, recv(Conn(k).cx, m), Conn(k).st, session_storage, now, m)
            IN Keep(k, r, m) /\ session_storage' = r.storage

\* Time passes.
Tick ==
    /\ now < MaxTime
    /\ now' = now + 1
    /\ UNCHANGED <<config, session_storage, cx, st, last_msg, accepted>>
    /\ UNCHANGED second

NextShared == Connect \/ Receive \/ Tick

\* Two connections that share the ClientConfig and its session storage,
\* under every interleaving of their transitions.
SpecShared == InitShared /\ [][NextShared]_vars

(* ------------------------------------------------------------------ *)
(* Vocabulary of the properties                                       *)
(* ------------------------------------------------------------------ *)

TrafficStates == {"ExpectTraffic", "ExpectQuicTraffic"}

InTraffic == st.name \in TrafficStates

\* The ClientHellos the connection sent, in order, and the latest of them.
ClientHellos == SelectSeq(cx.log, LAMBDA e : e.ev = "send" /\ e.typ = "ClientHello")

LastClientHello == ClientHellos[Len(ClientHellos)].hello

Offered(hello, ext) == Contains(hello.extensions, ext)

\* The accepted messages of a type, and the types in order of acceptance.
AcceptedOf(type) == {i \in 1..Len(accepted) : accepted[i].type = type}

AcceptedTypes == [i \in 1..Len(accepted) |-> accepted[i].type]

\* The ServerHello selected the client's PSK (index 0).
PskAccepted == \E i \in AcceptedOf("ServerHello") : accepted[i].psk = "0"

(* ------------------------------------------------------------------ *)
(* C1: authentication before traffic                                  *)
(* ------------------------------------------------------------------ *)

\* C1: the traffic state (ExpectTraffic or ExpectQuicTraffic) is reached
\* only if a server Finished whose verify-data matched was accepted, and
\* either (a) a Certificate and then a CertificateVerify were accepted for
\* which verify_server_cert and verify_tls13_signature both succeeded, or
\* (b) the latest ClientHello offered a PSK and the accepted ServerHello
\* selected PSK index 0.
C1_TrafficRequiresAuthentication ==
    InTraffic =>
        /\ \E i \in AcceptedOf("Finished") : accepted[i].verified
        /\ st.fin_verified = "Verified"
        /\ \/ \E j \in AcceptedOf("CertificateVerify") :
                 /\ accepted[j].verified
                 /\ \E k \in AcceptedOf("Certificate") : k < j
                 /\ st.cert_verified = "Verified" /\ st.sig_verified = "Verified"
           \/ /\ Offered(LastClientHello, "PreSharedKey")
              /\ PskAccepted

\* A resumed handshake reached the traffic state without any certificate.
C1_Witness == InTraffic /\ PskAccepted /\ AcceptedOf("Certificate") = {}

(* ------------------------------------------------------------------ *)
(* C2: one message per state, in the fixed order                      *)
(* ------------------------------------------------------------------ *)

FullFlight ==
    <<"ServerHello", "EncryptedExtensions", "Certificate", "CertificateVerify", "Finished">>

FullFlightWithCertReq ==
    <<"ServerHello", "EncryptedExtensions", "CertificateRequest", "Certificate",
      "CertificateVerify", "Finished">>

PskFlight == <<"ServerHello", "EncryptedExtensions", "Finished">>

WithRetry(flights) == flights \cup {<<"HelloRetryRequest">> \o f : f \in flights}

\* The message sequences the client accepts, given what the ServerHello chose.
AllowedFlights ==
    IF PskAccepted THEN WithRetry({PskFlight})
    ELSE WithRetry({FullFlight, FullFlightWithCertReq})

\* C2: the messages accepted so far are the beginning of
\* [HelloRetryRequest,] ServerHello, EncryptedExtensions, [CertificateRequest,]
\* Certificate, CertificateVerify, Finished, or, when the PSK was accepted, of
\* [HelloRetryRequest,] ServerHello, EncryptedExtensions, Finished; the
\* traffic state is reached exactly with a whole sequence; a message of a
\* type the state does not read makes the transition fail; and application
\* data can be sent, and the application keys are installed, only after
\* the server's Finished.
C2_FixedMessageOrder ==
    /\ \E f \in AllowedFlights :
          /\ IsPrefix(AcceptedTypes, f)
          /\ InTraffic <=> AcceptedTypes = f
    /\ (st.name = "Error" /\ st.failed_in \in PreTrafficStates
            /\ last_msg.type \notin Accepts(st.failed_in))
          => st.error[1] \in {"InappropriateMessage", "InappropriateHandshakeMessage"}
    /\ (\/ cx.may_send_application_data
        \/ cx.encrypter.kind = "ApplicationTraffic"
        \/ cx.decrypter.kind = "ApplicationTraffic")
          => AcceptedOf("Finished") # {}

\* A full handshake with client authentication went through every state.
C2_Witness == InTraffic /\ AcceptedTypes = <<"HelloRetryRequest">> \o FullFlightWithCertReq

(* ------------------------------------------------------------------ *)
(* C3: the transcript is the network order                            *)
(* ------------------------------------------------------------------ *)

ClientHandshakeTypes ==
    {"ClientHello", "EndOfEarlyData", "Certificate", "CertificateVerify", "Finished"}

\* The handshake messages on the wire, both directions, in network order.
Wire ==
    SelectSeq(cx.log, LAMBDA e : e.ev = "recv" \/ (e.ev = "send" /\ e.typ \in ClientHandshakeTypes))

WireEntries ==
    [i \in 1..Len(Wire) |->
        Entry(IF Wire[i].ev = "recv" THEN "server" ELSE "client", Wire[i].typ)]

\* The transcript the wire calls for: after a HelloRetryRequest, everything
\* before it is replaced by the synthetic message hash.
WireTranscript ==
    LET hrr == IndexOf(WireEntries, Entry("server", "HelloRetryRequest")) IN
    IF hrr = 0 THEN WireEntries
    ELSE <<Entry("synthetic", "MessageHash")>> \o SubSeq(WireEntries, hrr, Len(WireEntries))

ServerHandshakeTypes ==
    {"HelloRetryRequest", "ServerHello", "EncryptedExtensions", "CertificateRequest",
     "Certificate", "CertificateVerify", "Finished"}

\* C3: while the handshake is alive, the transcript holds every received
\* server handshake message exactly once, in network order, interleaved
\* with the handshake messages the client emitted.
C3_TranscriptIsNetworkOrder ==
    st.name \notin {"Start", "Error"} =>
        /\ st.transcript = WireTranscript
        /\ \A typ \in ServerHandshakeTypes :
              Count(st.transcript, Entry("server", typ)) = Cardinality(AcceptedOf(typ))

\* A whole handshake after a retry, with early data ended by EndOfEarlyData
\* or with client authentication.
C3_Witness ==
    /\ InTraffic
    /\ AcceptedOf("HelloRetryRequest") # {}
    /\ Contains(st.transcript, Entry("client", "Certificate"))

(* ------------------------------------------------------------------ *)
(* What the connection did in answer to the last message              *)
(* ------------------------------------------------------------------ *)

\* The position in cx.log of the arrival of the last message.
LastRecvIndex ==
    CHOOSE i \in 0..Len(cx.log) :
        /\ i > 0 => cx.log[i].ev = "recv"
        /\ \A j \in (i+1)..Len(cx.log) : cx.log[j].ev # "recv"
        /\ i = 0 => \A j \in 1..Len(cx.log) : cx.log[j].ev # "recv"

\* What the transition of the last message did to the record layer.
Reaction == SubSeq(cx.log, LastRecvIndex + 1, Len(cx.log))

IsKeyInstall(e) == e.ev \in {"set_message_encrypter", "set_message_decrypter"}

IsAlert(e, desc) == e.ev = "send" /\ e.typ = "Alert" /\ e.detail = desc

ServerHelloStates == {"ExpectServerHello", "ExpectServerHelloOrHelloRetryRequest"}

\* The last message is a ServerHello that a state reading ServerHellos
\* handled, and nothing has arrived since.
ServerHelloJustHandled ==
    /\ last_msg.type = "ServerHello"
    /\ \/ st.name = "Error" /\ st.failed_in \in ServerHelloStates
       \/ st.name \in {"ExpectEncryptedExtensions", "Tls12Handshake"}

(* ------------------------------------------------------------------ *)
(* C4: duplicate extensions in a ServerHello                          *)
(* ------------------------------------------------------------------ *)

\* C4 as stated: every ServerHello with duplicate extensions aborts the
\* connection with a DecodeError alert while no encrypter and no decrypter
\* has been set, whatever else it contains and whatever the client offered.
C4_DuplicateAlwaysDecodeErrorNoKey ==
    (ServerHelloJustHandled /\ last_msg.duplicate_ext) =>
        /\ st.name = "Error"
        /\ Len(Reaction) = 1 /\ IsAlert(Reaction[1], "DecodeError")
        /\ cx.encrypter = NoKey /\ cx.decrypter = NoKey

\* C4: a ServerHello with duplicate extensions always aborts the
\* connection and its transition installs no key; no decrypter has been
\* set, and the encrypter is unset or is the early-traffic key of a 0-RTT
\* offer; the alert is DecodeError exactly when the version check and the
\* compression check, which come first, both pass; otherwise the abort is
\* the one of the failing earlier check.
C4_DuplicateExtensionsAbort ==
    (ServerHelloJustHandled /\ last_msg.duplicate_ext) =>
        /\ st.name = "Error"
        /\ \A i \in 1..Len(Reaction) : ~IsKeyInstall(Reaction[i])
        /\ cx.decrypter = NoKey
        /\ \/ cx.encrypter = NoKey
           \/ /\ cx.encrypter.kind = "EarlyTraffic"
              /\ Offered(ClientHellos[1].hello, "EarlyData")
        /\ (/\ version_decision(config, cx, last_msg) \in {TLSv1_2, TLSv1_3}
            /\ last_msg.compression_null)
           <=> (/\ Len(Reaction) = 1 /\ IsAlert(Reaction[1], "DecodeError")
                /\ st.error = <<"PeerMisbehavedError", "server sent duplicate extensions">>)

\* A ServerHello with duplicate extensions answered a 0-RTT offer, passed
\* the version and compression checks and was refused with DecodeError
\* while the early-traffic key was the encrypter.
C4_Witness ==
    /\ ServerHelloJustHandled /\ last_msg.duplicate_ext
    /\ cx.encrypter.kind = "EarlyTraffic"
    /\ Len(Reaction) = 1 /\ IsAlert(Reaction[1], "DecodeError")

(* ------------------------------------------------------------------ *)
(* C5: Finished whose verify-data does not match                      *)
(* ------------------------------------------------------------------ *)

\* C5: when the verify-data of the server's Finished does not match, the
\* transition sends a DecryptError alert and returns DecryptError, and
\* does nothing else: the Finished is not in the transcript, the client
\* has sent no EndOfEarlyData, Certificate, CertificateVerify or Finished,
\* no application-traffic key is installed and user traffic is not started.
C5_FinishedMismatch ==
    (last_msg.type = "Finished" /\ ~last_msg.verify_ok) =>
        /\ st.name = "Error" /\ st.failed_in = "ExpectFinished"
        /\ st.error[1] = "DecryptError"
        /\ Len(Reaction) = 1 /\ IsAlert(Reaction[1], "DecryptError")
        /\ ~Contains(st.transcript, Entry("server", "Finished"))
        /\ \A i \in 1..Len(cx.log) :
              ~(cx.log[i].ev = "send"
                /\ cx.log[i].typ \in ClientHandshakeTypes \ {"ClientHello"})
        /\ \A i \in 1..Len(cx.log) :
              IsKeyInstall(cx.log[i]) => cx.log[i].key.kind # "ApplicationTraffic"
        /\ cx.encrypter.kind # "ApplicationTraffic"
        /\ cx.decrypter.kind # "ApplicationTraffic"
        /\ ~cx.may_send_application_data

\* A Finished with wrong verify-data arrived while early traffic was in
\* flight.
C5_Witness ==
    /\ last_msg.type = "Finished" /\ ~last_msg.verify_ok
    /\ st.failed_in = "ExpectFinished"
    /\ cx.early_traffic

(* ------------------------------------------------------------------ *)
(* C6: order of the client's actions after the server's Finished      *)
(* ------------------------------------------------------------------ *)

\* An action of the client as the order speaks of it: what it is, the
\* message sent, the kind of key installed.
Step(e) == <<e.ev, e.typ, IF IsKeyInstall(e) THEN e.key.kind ELSE None>>

\* The actions of a piece of cx.log, without the alignment checks.
Steps(events) ==
    LET acts == SelectSeq(events, LAMBDA e : e.ev # "check_aligned_handshake") IN
    [i \in 1..Len(acts) |-> Step(acts[i])]

\* (1) EndOfEarlyData (not over QUIC) and the handshake encrypter, when
\* early traffic is in flight.
EndEarlyDataSteps(c) ==
    IF ~c.early_traffic THEN <<>>
    ELSE (IF c.quic THEN <<>> ELSE << <<"send", "EndOfEarlyData", None>> >>)
         \o << <<"set_message_encrypter", None, "HandshakeTraffic">> >>

\* (2) Certificate, then CertificateVerify or not, when client
\* authentication was requested.
ClientAuthSteps(s) ==
    IF ~s.client_auth.requested THEN {<<>>}
    ELSE {<< <<"send", "Certificate", None>> >>,
          << <<"send", "Certificate", None>>, <<"send", "CertificateVerify", None>> >>}

\* (3) - (5) client Finished, application decrypter and encrypter, start
\* of user traffic.
FinishSteps ==
    << <<"send", "Finished", None>>,
       <<"set_message_decrypter", None, "ApplicationTraffic">>,
       <<"set_message_encrypter", None, "ApplicationTraffic">>,
       <<"start_traffic", None, None>> >>

OrdersAfterFinished(c, s) ==
    {EndEarlyDataSteps(c) \o auth \o FinishSteps : auth \in ClientAuthSteps(s)}

\* C6: the transition of a valid server Finished does, in this order:
\* (1) if early traffic is in flight, EndOfEarlyData (not over QUIC), clear
\* early_traffic, install the handshake encrypter; (2) if client
\* authentication was requested, Certificate then optionally
\* CertificateVerify; (3) client Finished; (4) application decrypter, then
\* encrypter; (5) start of user traffic; (6) the traffic state.  A
\* transition that fails on the way has done a beginning of that order.
C6_OrderAfterFinished ==
    [][(st.name = "ExpectFinished" /\ last_msg'.type = "Finished" /\ last_msg'.verify_ok) =>
          LET did == Steps(SubSeq(cx'.log, Len(cx.log) + 2, Len(cx'.log))) IN
          IF st'.name \in TrafficStates
          THEN /\ did \in OrdersAfterFinished(cx, st)
               /\ ~cx'.early_traffic
               /\ cx'.may_send_application_data
               /\ st'.name = IF cx.quic THEN "ExpectQuicTraffic" ELSE "ExpectTraffic"
          ELSE /\ st'.name = "Error"
               /\ ~cx'.may_send_application_data
               /\ \E o \in OrdersAfterFinished(cx, st) :
                     LET done == SelectSeq(did, LAMBDA a : a[2] # "Alert") IN
                     /\ IsPrefix(done, o)
                     /\ Len(done) <= Len(o) - 3
      ]_vars

\* The traffic state was reached over QUIC with early data accepted.
C6_Witness ==
    /\ st.name = "ExpectQuicTraffic"
    /\ cx.early_data = "AcceptedFinished"

(* ------------------------------------------------------------------ *)
(* C7: a ServerHello that selects no PSK                              *)
(* ------------------------------------------------------------------ *)

\* A TLS 1.3 ServerHello that selected no PSK was accepted.
NoPskRun ==
    /\ \E i \in AcceptedOf("ServerHello") : accepted[i].psk = None
    /\ st.name # "Tls12Handshake"
    /\ st.failed_in # "Tls12Handshake"

\* The position in cx.log of the arrival of the accepted ServerHello.
ServerHelloRecvIndex ==
    CHOOSE i \in 1..Len(cx.log) :
        /\ cx.log[i].ev = "recv" /\ cx.log[i].typ = "ServerHello"
        /\ \A j \in (i+1)..Len(cx.log) :
              ~(cx.log[j].ev = "recv" /\ cx.log[j].typ = "ServerHello"
                /\ (j < Len(cx.log) \/ st.name # "Error"))

\* C7: once a TLS 1.3 ServerHello that selects no PSK is accepted, the
\* early key schedule is gone, early_traffic is cleared, early data is
\* rejected, no state carries a resuming session, the key schedule and
\* every key installed from then on come from the non-secret branch, and
\* the traffic state is reached only through a verified server
\* certificate.
C7_NoPskNoResumptionState ==
    NoPskRun =>
        /\ st.early_key_schedule = None
        /\ ~cx.early_traffic
        /\ cx.early_data = "Rejected"
        /\ st.resuming_session = NoSession
        /\ st.key_schedule # NoSchedule => st.key_schedule.from = "NonSecret"
        /\ \A i \in 1..Len(cx.log) :
              (i > ServerHelloRecvIndex /\ IsKeyInstall(cx.log[i]))
                 => cx.log[i].key.from = "NonSecret"
        /\ cx.encrypter.from = "NonSecret" /\ cx.decrypter.from = "NonSecret"
        /\ st.name = "ExpectEncryptedExtensions" => st.key_schedule.from = "NonSecret"
        /\ InTraffic =>
              /\ st.cert_verified = "Verified" /\ st.sig_verified = "Verified"
              /\ \E j \in AcceptedOf("CertificateVerify") : accepted[j].verified

\* The client offered a PSK and 0-RTT, the server selected no PSK, and the
\* handshake went on to the traffic state.
C7_Witness ==
    /\ NoPskRun /\ InTraffic
    /\ Offered(ClientHellos[1].hello, "PreSharedKey")
    /\ Offered(ClientHellos[1].hello, "EarlyData")

(* ------------------------------------------------------------------ *)
(* C8: an expired cache entry                                         *)
(* ------------------------------------------------------------------ *)

\* The storage holds a session that has_expired() reports expired at the
\* time of the handshake, and the first ClientHello is out.
ExpiredEntryAtStart ==
    /\ st.name \in ServerHelloStates
    /\ accepted = <<>>
    /\ session_storage.session # NoSession
    /\ has_expired(session_storage.session, now)

\* C8: with an expired cache entry, start_handshake attempts no
\* resumption: the ClientHello carries no PreSharedKey, no EarlyData and
\* no SessionTicketOffer, early data is not enabled, no early key is
\* installed and the next state holds no resuming session.
C8_ExpiredEntryNoResumption ==
    ExpiredEntryAtStart =>
        LET ch == ClientHellos[1].hello IN
        /\ Len(ClientHellos) = 1
        /\ ~Offered(ch, "PreSharedKey")
        /\ ~Offered(ch, "EarlyData")
        /\ ~Offered(ch, "SessionTicketOffer")
        /\ ch.ticket = ""
        /\ cx.early_data = "Disabled"
        /\ ~cx.early_traffic
        /\ cx.encrypter = NoKey
        /\ \A i \in 1..Len(cx.log) : ~IsKeyInstall(cx.log[i])
        /\ st.resuming_session = NoSession
        /\ st.early_key_schedule = None

\* An expired TLS 1.3 ticket that would have allowed early data.
C8_Witness ==
    /\ ExpiredEntryAtStart
    /\ session_storage.session.version = TLSv1_3
    /\ session_storage.session.max_early_data_size > 0
    /\ config.enable_early_data

(* ------------------------------------------------------------------ *)
(* C9, C10: the version a ServerHello resolves to                     *)
(* ------------------------------------------------------------------ *)

\* The version a ServerHello resolves to, as the policy table words it.
Resolved(m) ==
    IF m.legacy_version = TLSv1_2 /\ m.supported_versions # None
    THEN m.supported_versions ELSE m.legacy_version

VersionErrors ==
    {"server chose v1.2 when offering 0-rtt", "server chose v1.2 using v1.3 extension",
     "server does not support TLS v1.2/v1.3"}

\* The ServerHello failed the version check.
RejectedAtVersionCheck == st.name = "Error" /\ st.error[2] \in VersionErrors

\* The latest ClientHello offered version v in SupportedVersions.
OfferedVersion(v) == Contains(LastClientHello.supported_versions, v)

\* C9 as stated: the version check accepts a ServerHello resolving to
\* TLS 1.3 iff the client offered 1.3; one resolving to TLS 1.2 iff the
\* client offered 1.2, offered no 0-RTT, and the ServerHello has no
\* SupportedVersions extension; any other version is rejected with a
\* fatal ProtocolVersion alert; an accepted ServerHello pins the resolved
\* version.
C9_VersionPolicyTable ==
    ServerHelloJustHandled =>
        LET v == Resolved(last_msg) IN
        /\ v = TLSv1_3 => (~RejectedAtVersionCheck <=> OfferedVersion(TLSv1_3))
        /\ v = TLSv1_2 =>
              (~RejectedAtVersionCheck <=>
                  /\ OfferedVersion(TLSv1_2)
                  /\ ~Offered(LastClientHello, "EarlyData")
                  /\ last_msg.supported_versions = None)
        /\ v \notin {TLSv1_2, TLSv1_3} =>
              /\ RejectedAtVersionCheck
              /\ Len(Reaction) = 1 /\ IsAlert(Reaction[1], "ProtocolVersion")
        /\ st.name # "Error" => cx.negotiated_version = v

\* C10 as stated: over QUIC no ClientHello offers TLS 1.2 in
\* SupportedVersions, and a ServerHello that resolves to TLS 1.2 is
\* rejected at the version check, so that TLS 1.2 is never negotiated.
C10_NoTls12OverQuic ==
    cx.quic =>
        /\ \A i \in 1..Len(ClientHellos) :
              ~Contains(ClientHellos[i].hello.supported_versions, TLSv1_2)
        /\ (ServerHelloJustHandled /\ Resolved(last_msg) = TLSv1_2)
              => RejectedAtVersionCheck
        /\ cx.negotiated_version # TLSv1_2
        /\ st.name # "Tls12Handshake"

(* ------------------------------------------------------------------ *)
(* C11: the mandatory checks on a ServerHello                         *)
(* ------------------------------------------------------------------ *)

\* The errors ExpectServerHello::handle returns itself, in the order of
\* the checks that return them.
ServerHelloErrors ==
    <<"server chose v1.2 when offering 0-rtt",
      "server chose v1.2 using v1.3 extension",
      "server does not support TLS v1.2/v1.3",
      "server chose non-Null compression",
      "server sent duplicate extensions",
      "server sent unsolicited extension",
      "server sent non-offered ALPN protocol",
      "server does not support uncompressed points",
      "server chose non-offered ciphersuite",
      "server chose unusable ciphersuite for version",
      "server varied selected ciphersuite">>

\* The mandatory checks: the error of each and the alert stated for it.
MandatoryChecks ==
    {<<"server chose non-Null compression", "IllegalParameter">>,
     <<"server sent unsolicited extension", "UnsupportedExtension">>,
     <<"server does not support uncompressed points", "HandshakeFailure">>,
     <<"server chose non-offered ciphersuite", "HandshakeFailure">>,
     <<"server chose unusable ciphersuite for version", "IllegalParameter">>,
     <<"server varied selected ciphersuite", "IllegalParameter">>}

\* ServerHello m, arriving in state s, has what the check of that error
\* looks for.
Defect(why, s, m) ==
    CASE why = "server chose non-Null compression" -> ~m.compression_null
      [] why = "server sent unsolicited extension" ->
            \E e \in ServerHelloExts(m) :
                e \notin s.sent_extensions /\ e # "RenegotiationInfo"
      [] why = "server does not support uncompressed points" ->
            m.ecpoints \notin {None, "Uncompressed"}
      [] why = "server chose non-offered ciphersuite" ->
            ~Contains(LastClientHello.cipher_suites, m.cipher_suite)
      [] why = "server chose unusable ciphersuite for version" ->
            SuiteVersion(m.cipher_suite) # Resolved(m)
      [] why = "server varied selected ciphersuite" ->
            s.suite # None /\ s.suite # m.cipher_suite

\* C11: when a ServerHello has what a mandatory check looks for, the
\* connection fails, at that check or at an earlier one; and it fails at
\* that check only if the ServerHello has what it looks for.  Failing at a
\* mandatory check is: the stated fatal alert is queued and nothing else
\* is done to the record layer (no key is installed), and the error is a
\* PeerMisbehavedError.
C11_MandatoryServerHelloChecks ==
    [][(st.name \in ServerHelloStates /\ last_msg'.type = "ServerHello") =>
          LET did == SubSeq(cx'.log, Len(cx.log) + 2, Len(cx'.log)) IN
          \A chk \in MandatoryChecks :
              /\ Defect(chk[1], st, last_msg') =>
                    /\ st'.name = "Error"
                    /\ IndexOf(ServerHelloErrors, st'.error[2])
                          \in 1..IndexOf(ServerHelloErrors, chk[1])
              /\ (st'.name = "Error" /\ st'.error[2] = chk[1]) =>
                    /\ Defect(chk[1], st, last_msg')
                    /\ st'.error[1] = "PeerMisbehavedError"
                    /\ Len(did) = 1 /\ IsAlert(did[1], chk[2])
                    /\ cx'.encrypter = cx.encrypter /\ cx'.decrypter = cx.decrypter
      ]_vars

\* After a HelloRetryRequest, a ServerHello that passed every other check
\* was refused for choosing another suite than the HelloRetryRequest.
C11_Witness ==
    /\ ServerHelloJustHandled
    /\ st.name = "Error" /\ st.error[2] = "server varied selected ciphersuite"
    /\ AcceptedOf("HelloRetryRequest") # {}
    /\ Len(Reaction) = 1 /\ IsAlert(Reaction[1], "IllegalParameter")

(* ------------------------------------------------------------------ *)
(* C12: a ServerHello that selects a PSK                              *)
(* ------------------------------------------------------------------ *)

\* What a TLS 1.3 ServerHello m that selects a PSK must meet in state s:
\* the client holds a resuming session whose PSK the ClientHello it
\* answers offered, the selected index is 0, the chosen suite can resume
\* from the stored suite (same hash), and it is the stored suite when that
\* ClientHello offered 0-RTT.
PskSelectionValid(s, m) ==
    /\ s.resuming_session # NoSession
    /\ Offered(LastClientHello, "PreSharedKey")
    /\ m.psk = "0"
    /\ IF s.resuming_session = NoSession THEN FALSE
       ELSE /\ s.resuming_session.suite \in Tls13Suites
            /\ SuiteHash(m.cipher_suite) = SuiteHash(s.resuming_session.suite)
            /\ Offered(LastClientHello, "EarlyData")
                  => m.cipher_suite = s.resuming_session.suite

\* C12: a TLS 1.3 ServerHello that selects a PSK is accepted as a
\* resumption only if the selection is valid; when it is not, the
\* connection fails, ExpectEncryptedExtensions is not reached and the
\* transition installs no key.
C12_PskSelection ==
    [][(/\ st.name \in ServerHelloStates
        /\ last_msg'.type = "ServerHello"
        /\ Resolved(last_msg') = TLSv1_3
        /\ last_msg'.psk # None) =>
          LET did == SubSeq(cx'.log, Len(cx.log) + 2, Len(cx'.log)) IN
          /\ (st'.name = "ExpectEncryptedExtensions" /\ st'.resuming_session # NoSession)
                => PskSelectionValid(st, last_msg')
          /\ ~PskSelectionValid(st, last_msg') =>
                /\ st'.name = "Error"
                /\ \A i \in 1..Len(did) : ~IsKeyInstall(did[i])
                /\ cx'.encrypter = cx.encrypter /\ cx'.decrypter = cx.decrypter
      ]_vars

\* After a 0-RTT offer the server selected the PSK with another suite of
\* the same hash, and the connection failed on it.
C12_Witness ==
    /\ ServerHelloJustHandled
    /\ last_msg.psk = "0"
    /\ Offered(LastClientHello, "EarlyData")
    /\ st.name = "Error" /\ st.error[2] = "server varied suite with early data"
    /\ cx.decrypter = NoKey

(* ------------------------------------------------------------------ *)
(* C13: the handshake keys after a TLS 1.3 ServerHello                *)
(* ------------------------------------------------------------------ *)

\* What the transition under way did to the record layer after it took
\* its message.
StepLog == SubSeq(cx'.log, Len(cx.log) + 2, Len(cx'.log))

\* The states between an accepted TLS 1.3 ServerHello and the traffic
\* state.
HandshakeStates13 ==
    {"ExpectEncryptedExtensions", "ExpectCertificateOrCertReq", "ExpectCertificate",
     "ExpectCertificateVerify", "ExpectFinished"}

\* 0-RTT is in flight: early data was offered and is not rejected or
\* finished.
EarlyDataInFlight(c) == early_data_is_enabled(c)

\* The positions of a piece of cx.log that install an encrypter, and those
\* that send a message of a type.
EncrypterInstalls(events) ==
    {i \in 1..Len(events) : events[i].ev = "set_message_encrypter"}

Sends(events, typ) ==
    {i \in 1..Len(events) : events[i].ev = "send" /\ events[i].typ = typ}

\* The transition under way accepts a TLS 1.3 ServerHello: the server
\* handshake key becomes the decrypter; the client handshake key becomes
\* the encrypter exactly when 0-RTT is not in flight, and with 0-RTT in
\* flight the encrypter stays the early key.
ServerHelloInstallsHandshakeKeys ==
    (/\ st.name \in ServerHelloStates
     /\ last_msg'.type = "ServerHello"
     /\ st'.name = "ExpectEncryptedExtensions") =>
        /\ \E i \in 1..Len(StepLog) :
              /\ StepLog[i].ev = "set_message_decrypter"
              /\ StepLog[i].key = Key("HandshakeTraffic", st'.key_schedule.from, 0)
        /\ cx'.decrypter = Key("HandshakeTraffic", st'.key_schedule.from, 0)
        /\ (EncrypterInstalls(StepLog) # {}) <=> ~EarlyDataInFlight(cx')
        /\ ~EarlyDataInFlight(cx') =>
              cx'.encrypter = Key("HandshakeTraffic", st'.key_schedule.from, 0)
        /\ EarlyDataInFlight(cx') =>
              /\ cx'.encrypter = cx.encrypter
              /\ cx'.encrypter.kind = "EarlyTraffic"

EarlyDataAccepted ==
    /\ PskAccepted
    /\ \E i \in AcceptedOf("EncryptedExtensions") : accepted[i].early_data

\* ExpectFinished received a server Finished whose verify data matched and
\* nothing has arrived since (the transition may still have failed later).
ServerFinishedVerified ==
    /\ last_msg.type = "Finished"
    /\ last_msg.verify_ok
    /\ InTraffic \/ (st.name = "Error" /\ st.failed_in = "ExpectFinished")

EndOfEarlyDataSends == Sends(cx.log, "EndOfEarlyData")

ClientFinishedSends == Sends(cx.log, "Finished")

\* C14: the client emits EndOfEarlyData iff the server accepted early data
\* (PSK selected and EncryptedExtensions carried early_data) and the
\* connection is not QUIC: it is never emitted otherwise, and it has been
\* emitted (once) whenever a verified server Finished was handled on such a
\* connection.  It is emitted after the verified server Finished arrived
\* and before the client Finished, and every client Finished is encrypted
\* under the client handshake traffic key.
C14_EndOfEarlyData ==
    /\ EndOfEarlyDataSends # {} => EarlyDataAccepted /\ ~cx.quic
    /\ ServerFinishedVerified /\ EarlyDataAccepted /\ ~cx.quic
           => Cardinality(EndOfEarlyDataSends) = 1
    /\ \A i \in EndOfEarlyDataSends :
           /\ ServerFinishedVerified
           /\ i > LastRecvIndex
           /\ cx.log[LastRecvIndex].typ = "Finished"
           /\ \A k \in ClientFinishedSends : i < k
    /\ \A k \in ClientFinishedSends :
           /\ cx.log[k].key = Key("HandshakeTraffic", cx.log[k].key.from, 0)
           /\ k > LastRecvIndex
    /\ InTraffic => Cardinality(ClientFinishedSends) = 1

\* A completed non-QUIC handshake in which EndOfEarlyData went out under the
\* early key and the client Finished after it under the handshake key.
C14_Witness ==
    /\ st.name = "ExpectTraffic"
    /\ ~cx.quic
    /\ EarlyDataAccepted
    /\ \E i \in EndOfEarlyDataSends : \E k \in ClientFinishedSends :
           /\ i < k
           /\ cx.log[i].key.kind = "EarlyTraffic"
           /\ cx.log[k].key.kind = "HandshakeTraffic"

(* ------------------------------------------------------------------ *)
(* C15: the server refuses the PSK or the early data                  *)
(* ------------------------------------------------------------------ *)

\* The connection offered a PSK with 0-RTT: its first ClientHello carried
\* the PreSharedKey and EarlyData extensions.
PskWithEarlyDataOffered ==
    /\ ClientHellos # <<>>
    /\ Offered(ClientHellos[1].hello, "PreSharedKey")
    /\ Offered(ClientHellos[1].hello, "EarlyData")

\* The step under way accepts a TLS 1.3 ServerHello without a PSK selection.
AcceptsServerHelloWithoutPsk ==
    /\ st.name \in ServerHelloStates
    /\ st'.name = "ExpectEncryptedExtensions"
    /\ last_msg'.psk = None

\* The step under way accepts an EncryptedExtensions without early_data.
AcceptsEncryptedExtensionsWithoutEarlyData ==
    /\ st.name = "ExpectEncryptedExtensions"
    /\ st'.name \in {"ExpectFinished", "ExpectCertificateOrCertReq"}
    /\ ~last_msg'.early_data

\* After the step early traffic is off, the full handshake (with the
\* server's certificate) is what follows, and the key schedule is not
\* derived from the PSK.
FallsBackToFullHandshake ==
    /\ ~cx'.early_traffic
    /\ st'.name = "ExpectEncryptedExtensions" => st'.resuming_session = NoSession
    /\ st'.name # "ExpectFinished"
    /\ st'.key_schedule.from = "NonSecret"

\* C15 as stated: when the client offered PSK + 0-RTT and the server
\* either omits the PSK selection in ServerHello or omits early_data in
\* EncryptedExtensions, the client clears early_traffic, drops resumption,
\* and derives its key schedule from the non-secret branch.
C15_AsStated ==
    [][PskWithEarlyDataOffered
       /\ (AcceptsServerHelloWithoutPsk \/ AcceptsEncryptedExtensionsWithoutEarlyData)
           => FallsBackToFullHandshake]_vars

\* C15, amended: when the client offered PSK + 0-RTT and the server omits
\* the PSK selection in ServerHello, the client rejects the early data,
\* clears early_traffic, drops resumption and derives its key schedule from
\* the non-secret branch.  When the server selected the PSK and omits only
\* early_data in EncryptedExtensions, the client rejects the early data,
\* clears early_traffic and makes the client handshake key the encrypter,
\* but the resumption goes on: the key schedule stays the one derived from
\* the PSK and the next state is ExpectFinished, with no certificate.
C15_RefusedEarlyData ==
    [][PskWithEarlyDataOffered =>
         /\ AcceptsServerHelloWithoutPsk =>
              /\ FallsBackToFullHandshake
              /\ cx'.early_data = "Rejected"
         /\ AcceptsEncryptedExtensionsWithoutEarlyData =>
              /\ ~cx'.early_traffic
              /\ cx'.early_data = "Rejected"
              /\ cx'.encrypter = Key("HandshakeTraffic", st'.key_schedule.from, 0)
              /\ st'.key_schedule = st.key_schedule
              /\ IF PskAccepted
                 THEN /\ st'.name = "ExpectFinished"
                      /\ st'.key_schedule.from = "Psk"
                      /\ st'.cert_verified = "Assertion"
                 ELSE /\ st'.name = "ExpectCertificateOrCertReq"
                      /\ st'.key_schedule.from = "NonSecret"]_vars

\* The server selected the PSK of a 0-RTT offer and left early_data out of
\* EncryptedExtensions: early traffic is off, the early data is rejected,
\* and the resumed handshake waits for the server Finished on the schedule
\* derived from the PSK.
C15_Witness ==
    /\ PskWithEarlyDataOffered
    /\ PskAccepted
    /\ st.name = "ExpectFinished"
    /\ last_msg.type = "EncryptedExtensions"
    /\ ~last_msg.early_data
    /\ ~cx.early_traffic
    /\ cx.early_data = "Rejected"
    /\ st.key_schedule.from = "Psk"
    /\ Len(ClientHellos) = 1

(* ------------------------------------------------------------------ *)
(* C16: the fake ChangeCipherSpec                                     *)
(* ------------------------------------------------------------------ *)

FakeCcsSends == Sends(cx.log, "ChangeCipherSpec")

\* The places of cx.log where emit_fake_ccs is called: right after a first
\* ClientHello that offered early data, right before a retry ClientHello,
\* and in the transition of an accepted TLS 1.3 ServerHello.
AfterEarlyDataClientHello(i) ==
    /\ i > 1
    /\ cx.log[i-1].ev = "send" /\ cx.log[i-1].typ = "ClientHello"
    /\ Offered(cx.log[i-1].hello, "EarlyData")

BeforeRetryClientHello(i) ==
    /\ i < Len(cx.log)
    /\ cx.log[i+1].ev = "send" /\ cx.log[i+1].typ = "ClientHello"
    /\ \E j \in 1..(i-1) : cx.log[j].ev = "recv" /\ cx.log[j].typ = "HelloRetryRequest"

AfterServerHello(i) ==
    \E j \in 1..(i-1) :
        /\ cx.log[j].ev = "recv" /\ cx.log[j].typ = "ServerHello"
        /\ \A k \in (j+1)..(i-1) : cx.log[k].ev # "recv"

\* C16: on any connection the fake ChangeCipherSpec record is emitted at
\* most once across all of its emission points (after the first ClientHello
\* when early data is offered, before a retry ClientHello, after
\* ServerHello), and never on a QUIC connection; it is a plaintext record,
\* and a non-QUIC connection that got past a TLS 1.3 ServerHello or sent a
\* retry ClientHello has emitted it.
C16_FakeCcsAtMostOnce ==
    /\ Cardinality(FakeCcsSends) <= 1
    /\ cx.quic => FakeCcsSends = {}
    /\ \A i \in FakeCcsSends :
           /\ cx.log[i].key = NoKey
           /\ AfterEarlyDataClientHello(i) \/ BeforeRetryClientHello(i) \/ AfterServerHello(i)
    /\ ~cx.quic /\ (Len(ClientHellos) = 2 \/ AcceptedOf("EncryptedExtensions") # {})
           => Cardinality(FakeCcsSends) = 1

\* A non-QUIC connection that passed all three emission points (a first
\* ClientHello offering early data, a retry ClientHello, an accepted
\* ServerHello) and emitted the record once.
C16_Witness ==
    /\ ~cx.quic
    /\ Len(ClientHellos) = 2
    /\ Offered(ClientHellos[1].hello, "EarlyData")
    /\ st.name = "ExpectEncryptedExtensions"
    /\ Cardinality(FakeCcsSends) = 1

(* ------------------------------------------------------------------ *)
(* C17: record version and plaintext of the ClientHellos              *)
(* ------------------------------------------------------------------ *)

\* The places of cx.log where a ClientHello was sent.
ClientHelloSends == Sends(cx.log, "ClientHello")

\* A HelloRetryRequest arrived before place i of cx.log.
AfterHelloRetryRequest(i) ==
    \E j \in 1..(i-1) : cx.log[j].ev = "recv" /\ cx.log[j].typ = "HelloRetryRequest"

\* The encrypter in place at place i of cx.log: the key of the latest
\* set_message_encrypter before it, NoKey if there is none.
EncrypterAt(i) ==
    LET sets == {j \in 1..(i-1) : cx.log[j].ev = "set_message_encrypter"} IN
    IF sets = {} THEN NoKey
    ELSE cx.log[CHOOSE j \in sets : \A k \in sets : k <= j].key

\* C17: the first ClientHello of a connection is sent with record version
\* TLS 1.0 and unencrypted, and any ClientHello sent after a
\* HelloRetryRequest is sent with record version TLS 1.2 and unencrypted,
\* even when an early-data encrypter is already installed in the record
\* layer.
C17_ClientHelloRecords ==
    \A i \in ClientHelloSends :
        /\ cx.log[i].key = NoKey
        /\ cx.log[i].version = IF AfterHelloRetryRequest(i) THEN TLSv1_2 ELSE TLSv1_0
        /\ AfterHelloRetryRequest(i) <=> \E j \in ClientHelloSends : j < i

\* A retry ClientHello that went out in plaintext with record version
\* TLS 1.2 while the early-traffic key was the encrypter.
C17_Witness ==
    \E i \in ClientHelloSends :
        /\ AfterHelloRetryRequest(i)
        /\ EncrypterAt(i).kind = "EarlyTraffic"
        /\ cx.log[i].key = NoKey
        /\ cx.log[i].version = TLSv1_2
        /\ ClientHellos[1].version = TLSv1_0

(* ------------------------------------------------------------------ *)
(* C18: the answer to an accepted HelloRetryRequest                   *)
(* ------------------------------------------------------------------ *)

\* The step under way accepts a HelloRetryRequest.
AcceptsHelloRetryRequest ==
    /\ st.name = "ExpectServerHelloOrHelloRetryRequest"
    /\ last_msg'.type = "HelloRetryRequest"
    /\ st'.name = "ExpectServerHello"

\* What the step under way queued for sending, in order.
StepSends == SelectSeq(StepLog, LAMBDA e : e.ev = "send")

\* The HelloRetryRequest of the step asks for a group other than the one
\* the first ClientHello offered a key share for.
RequestsDifferentGroup ==
    /\ last_msg'.requested_group # None
    /\ last_msg'.requested_group # ClientHellos[1].hello.key_share.group

\* The retry ClientHello of the step.
RetryHello == StepSends[Len(StepSends)].hello

\* C18: on an accepted HelloRetryRequest the client emits, in order, the
\* fake CCS (if not QUIC and not already sent) and then a second
\* ClientHello, and nothing else.  If the HelloRetryRequest selects a
\* different group, that group is configured and the KeyShare of the
\* second ClientHello is a fresh one for it; otherwise the key share
\* offered first is reused.  The second ClientHello echoes the server's
\* Cookie when one was supplied and carries none otherwise.  The transcript
\* becomes the synthetic message-hash of the first ClientHello, the
\* HelloRetryRequest and the second ClientHello.
C18_RetryAfterHelloRetryRequest ==
    [][AcceptsHelloRetryRequest =>
         /\ [i \in 1..Len(StepSends) |-> StepSends[i].typ] =
                IF ~cx.quic /\ Sends(cx.log, "ChangeCipherSpec") = {}
                THEN <<"ChangeCipherSpec", "ClientHello">>
                ELSE <<"ClientHello">>
         /\ Offered(RetryHello, "KeyShare")
         /\ IF RequestsDifferentGroup
            THEN /\ RetryHello.key_share.group = last_msg'.requested_group
                 /\ Contains(config.kx_groups, last_msg'.requested_group)
                 /\ RetryHello.key_share # ClientHellos[1].hello.key_share
            ELSE RetryHello.key_share = ClientHellos[1].hello.key_share
         /\ st'.offered_key_share = RetryHello.key_share
         /\ RetryHello.cookie = last_msg'.cookie
         /\ Offered(RetryHello, "Cookie") <=> last_msg'.cookie # None
         /\ st'.transcript = <<Entry("synthetic", "MessageHash"),
                               Entry("server", "HelloRetryRequest"),
                               Entry("client", "ClientHello")>>]_vars

\* A HelloRetryRequest with a cookie and another configured group was
\* accepted: the fake CCS and then a second ClientHello went out, with a
\* key share for that group and the cookie.
C18_Witness ==
    /\ st.name = "ExpectServerHello"
    /\ last_msg.type = "HelloRetryRequest"
    /\ last_msg.cookie = "cookie"
    /\ last_msg.requested_group = secp256r1
    /\ Len(ClientHellos) = 2
    /\ ClientHellos[1].hello.key_share.group = X25519
    /\ ClientHellos[2].hello.key_share.group = secp256r1
    /\ ClientHellos[2].hello.cookie = "cookie"
    /\ LET n == Len(cx.log) IN
          /\ cx.log[n].typ = "ClientHello"
          /\ cx.log[n-1].ev = "send" /\ cx.log[n-1].typ = "ChangeCipherSpec"
    /\ st.transcript = <<Entry("synthetic", "MessageHash"),
                         Entry("server", "HelloRetryRequest"),
                         Entry("client", "ClientHello")>>

\* The other case of C18: a HelloRetryRequest with a cookie and no other
\* group was accepted and the second ClientHello reuses the key share.
C18_WitnessReuse ==
    /\ st.name = "ExpectServerHello"
    /\ last_msg.type = "HelloRetryRequest"
    /\ last_msg.requested_group = None
    /\ Len(ClientHellos) = 2
    /\ ClientHellos[2].hello.key_share = ClientHellos[1].hello.key_share

(* ------------------------------------------------------------------ *)
(* C19: HelloRetryRequests that are rejected                          *)
(* ------------------------------------------------------------------ *)

\* The errors of handle_hello_retry_request in the order of its checks,
\* each with its alert.
HelloRetryRequestErrors ==
    << <<"server requested hrr with our group", "IllegalParameter">>,
       <<"server requested hrr with empty cookie", "IllegalParameter">>,
       <<"server sent hrr with unhandled extension", "UnsupportedExtension">>,
       <<"server send duplicate hrr extensions", "IllegalParameter">>,
       <<"server requested hrr with no changes", "IllegalParameter">>,
       <<"server requested unsupported version in hrr", "IllegalParameter">>,
       <<"server requested unsupported cs in hrr", "IllegalParameter">>,
       <<"server requested hrr with bad group", "IllegalParameter">> >>

\* HelloRetryRequest m, answering a ClientHello with a key share of group
\* offered, has the defect the n-th error names.
HrrDefect(n, m, offered) ==
    CASE n = 1 -> m.cookie = None /\ m.requested_group = offered
      [] n = 2 -> m.cookie = ""
      [] n = 3 -> m.unknown_ext
      [] n = 4 -> m.duplicate_ext
      [] n = 5 -> m.cookie = None /\ m.requested_group = None
      [] n = 6 -> m.supported_versions # TLSv1_3
      [] n = 7 -> ~Contains(LastClientHello.cipher_suites, m.cipher_suite)
      [] n = 8 -> m.requested_group # None /\ ~Contains(config.kx_groups, m.requested_group)

HrrDefects(m, offered) == {n \in 1..8 : HrrDefect(n, m, offered)}

\* The step under way hands a HelloRetryRequest to
\* handle_hello_retry_request.
HandlesHelloRetryRequest ==
    /\ st.name = "ExpectServerHelloOrHelloRetryRequest"
    /\ last_msg'.type = "HelloRetryRequest"

\* C19: a HelloRetryRequest is rejected as terminal, with one fatal alert
\* queued and no second ClientHello emitted, whenever it has no cookie and
\* requests the group already offered, has an empty cookie, has an unknown
\* extension, has duplicate extensions, has neither cookie nor requested
\* group, does not select TLS 1.3 in SupportedVersions, selects a cipher
\* suite not offered, or requests a group not in the configured kx_groups.
\* When the record layer is aligned the error is that of the first of
\* these checks that fails, with the UnsupportedExtension alert for an
\* unknown extension and IllegalParameter for the others.
C19_HelloRetryRequestRejected ==
    [][HandlesHelloRetryRequest =>
         LET m == last_msg'
             defects == HrrDefects(m, ClientHellos[1].hello.key_share.group)
         IN defects # {} =>
              /\ st'.name = "Error"
              /\ st'.error[1] \in {"PeerMisbehavedError", "PeerIncompatibleError"}
              /\ Len(StepSends) = 1
              /\ StepSends[1].typ = "Alert"
              /\ Sends(cx'.log, "ClientHello") = Sends(cx.log, "ClientHello")
              /\ m.aligned =>
                   LET first == CHOOSE n \in defects : \A k \in defects : n <= k IN
                   /\ st'.error[2] = HelloRetryRequestErrors[first][1]
                   /\ StepSends[1].detail = HelloRetryRequestErrors[first][2]]_vars

\* A HelloRetryRequest asking for a group the configuration does not hold
\* was rejected with an IllegalParameter alert and no second ClientHello.
C19_Witness ==
    /\ st.name = "Error"
    /\ st.failed_in = "ExpectServerHelloOrHelloRetryRequest"
    /\ last_msg.type = "HelloRetryRequest"
    /\ last_msg.requested_group = secp384r1
    /\ st.error = <<"PeerMisbehavedError", "server requested hrr with bad group">>
    /\ Len(ClientHellos) = 1
    /\ IsAlert(cx.log[Len(cx.log)], "IllegalParameter")

(* ------------------------------------------------------------------ *)
(* C20: the negotiated version                                        *)
(* ------------------------------------------------------------------ *)

\* C20: the connection's negotiated version is set once: after
\* negotiated_version has been given a value (by a HelloRetryRequest or a
\* ServerHello), no later transition of the same connection changes it to
\* a different value.
C20_NegotiatedVersionSetOnce ==
    [][cx.negotiated_version # None => cx'.negotiated_version = cx.negotiated_version]_vars

\* The ServerHello after a HelloRetryRequest was accepted as TLS 1.2: the
\* version the HelloRetryRequest set is replaced and the TLS 1.2 handshake
\* has taken over.
C20_DowngradeAfterRetry ==
    /\ st.name = "Tls12Handshake"
    /\ AcceptedTypes = <<"HelloRetryRequest", "ServerHello">>
    /\ cx.negotiated_version = TLSv1_2

(* ------------------------------------------------------------------ *)
(* C21: key changes and the alignment check                           *)
(* ------------------------------------------------------------------ *)

\* The places of cx.log where a transition begins: a message is taken from
\* the record layer, or the user writes.
IsTransitionStart(e) == e.ev \in {"recv", "write"}

\* Place i of cx.log lies in the transition that begins at place
\* TransitionOf(i); 0 is start_handshake.
TransitionOf(i) ==
    LET starts == {j \in 1..i : IsTransitionStart(cx.log[j])} IN
    IF starts = {} THEN 0 ELSE CHOOSE j \in starts : \A k \in starts : k <= j

\* A successful check_aligned_handshake precedes place i of cx.log in the
\* same transition.
AlignedBefore(i) ==
    \E j \in (TransitionOf(i) + 1)..(i - 1) : cx.log[j].ev = "check_aligned_handshake"

KeyInstalls == {i \in 1..Len(cx.log) : IsKeyInstall(cx.log[i])}

DecrypterInstalls == {i \in 1..Len(cx.log) : cx.log[i].ev = "set_message_decrypter"}

\* The last message reached an alignment check that found a fragment
\* pending.
AlignmentCheckFailed ==
    /\ st.name = "Error"
    /\ st.error = <<"PeerMisbehavedError", "key epoch or handshake flight with pending fragment">>

UncheckedEncrypterChange(i) ==
    LET t == TransitionOf(i) IN
    \/ /\ cx.log[i].key.kind = "EarlyTraffic"
       /\ \E j \in (t + 1)..(i - 1) : cx.log[j].ev = "send" /\ cx.log[j].typ = "ClientHello"
    \/ /\ cx.log[i].key.kind = "HandshakeTraffic"
       /\ t > 0
       /\ cx.log[t].typ \in {"EncryptedExtensions", "Finished"}
       /\ Offered(ClientHellos[1].hello, "EarlyData")
    \/ /\ cx.log[i].key.kind = "ApplicationTraffic"
       /\ t > 0
       /\ cx.log[t].ev = "write"
       /\ cx.log[i-1].ev = "send" /\ cx.log[i-1].typ = "KeyUpdate"

TranscriptAtServerFinished ==
    SubSeq(st.transcript, 1, IndexOf(st.transcript, Entry("server", "Finished")))

\* The transcript as it stood when the key schedule moved to traffic:
\* everything before the client's Finished.
TranscriptAtScheduleTransition == SubSeq(st.transcript, 1, Len(st.transcript) - 1)

\* What the client appended in steps 1 and 2 of ExpectFinished::handle.
AppendedBeforeSchedule ==
    SubSeq(st.transcript, Len(TranscriptAtServerFinished) + 1, Len(st.transcript) - 1)

\* C22 as stated: the client/server application traffic secrets are derived
\* using the transcript hash as it stands at the moment of the key-schedule
\* transition, after any EndOfEarlyData, client Certificate and client
\* CertificateVerify have been appended to the transcript.
C22_AsStated ==
    InTraffic => st.key_schedule.traffic_hash = TranscriptAtScheduleTransition

\* C22, amended: the client/server application traffic secrets are derived
\* using the transcript hash taken right after the server's Finished was
\* appended, before any EndOfEarlyData, client Certificate and client
\* CertificateVerify; those messages enter only the hash the client's
\* Finished is computed on, which is the transcript as it stands when the
\* key schedule moves on.
C22_TrafficSecretsHash ==
    InTraffic =>
        /\ st.key_schedule.traffic_hash = TranscriptAtServerFinished
        /\ st.key_schedule.client_fin_hash = TranscriptAtScheduleTransition
        /\ st.transcript[Len(st.transcript)] = Entry("client", "Finished")
        /\ \A i \in 1..Len(AppendedBeforeSchedule) :
               /\ AppendedBeforeSchedule[i].who = "client"
               /\ AppendedBeforeSchedule[i].typ
                      \in {"EndOfEarlyData", "Certificate", "CertificateVerify"}

\* A handshake with client authentication reached the traffic state: the
\* client's Certificate and CertificateVerify are in the hash of its
\* Finished and not in the hash of the application traffic secrets.
C22_Witness ==
    /\ InTraffic
    /\ Contains(AppendedBeforeSchedule, Entry("client", "Certificate"))
    /\ Contains(AppendedBeforeSchedule, Entry("client", "CertificateVerify"))
    /\ ~Contains(st.key_schedule.traffic_hash, Entry("client", "Certificate"))
    /\ Contains(st.key_schedule.client_fin_hash, Entry("client", "CertificateVerify"))

(* ------------------------------------------------------------------ *)
(* C23: client authentication without a usable credential             *)
(* ------------------------------------------------------------------ *)

\* What the client sent of a type, as the details of the messages in
\* order of sending.
SentDetails(typ) ==
    LET sent == SelectSeq(cx.log, LAMBDA e : e.ev = "send" /\ e.typ = typ) IN
    [i \in 1..Len(sent) |-> sent[i].detail]

\* The accepted CertificateRequest found the client with the credential
\* answer r: "none" (the resolver returned nothing), "cert" (a credential
\* whose key can choose none of the schemes), "signer".
CredentialAnswer(r) ==
    \E i \in AcceptedOf("CertificateRequest") : accepted[i].resolved = r

\* The client answered the request with a Certificate without entries, no
\* CertificateVerify, and its Finished.
EmptyCertificateThenFinished ==
    /\ SentDetails("Certificate") = <<"empty">>
    /\ SentDetails("CertificateVerify") = <<>>
    /\ \E i \in Sends(cx.log, "Certificate") : \E k \in ClientFinishedSends : i < k

\* The last message is a well-formed CertificateRequest none of whose
\* signature schemes the client supports.
NoCommonSchemeRequested ==
    /\ last_msg.type = "CertificateRequest"
    /\ last_msg.context_empty
    /\ ~last_msg.compat_sigschemes
    /\ st.name = "Error" =>
           st.failed_in \in {"ExpectCertificateOrCertReq", "ExpectCertificateRequest"}

\* C23 as stated: when the server requests client authentication and the
\* client has no credential with a signature scheme matching the request
\* (no common scheme, resolver returns none, or the resolved key cannot
\* choose any compatible scheme), the client sends a Certificate message
\* with zero entries and no CertificateVerify, followed by Finished.
C23_AsStated ==
    /\ NoCommonSchemeRequested => st.name # "Error"
    /\ ServerFinishedVerified /\ (CredentialAnswer("none") \/ CredentialAnswer("cert"))
           => EmptyCertificateThenFinished

\* The part of C23 the code keeps: when the resolver returns no
\* credential, the client sends a Certificate without entries and no
\* CertificateVerify, followed by Finished.
C23_ResolverReturnsNone ==
    InTraffic /\ CredentialAnswer("none") => EmptyCertificateThenFinished

\* The resolved key could choose none of the schemes: the handshake
\* completed with the client's certificate chain sent and no
\* CertificateVerify.
C23_CertificateWithoutVerify ==
    /\ InTraffic
    /\ CredentialAnswer("cert")
    /\ SentDetails("Certificate") = <<"entries">>
    /\ SentDetails("CertificateVerify") = <<>>

\* None of the requested schemes is supported: the connection aborted with
\* a HandshakeFailure alert.
C23_NoCommonSchemeAborts ==
    /\ NoCommonSchemeRequested
    /\ st.error = <<"PeerIncompatibleError", "server sent bad certreq schemes">>
    /\ IsAlert(cx.log[Len(cx.log)], "HandshakeFailure")

(* ------------------------------------------------------------------ *)
(* C24: the client's Certificate and CertificateVerify                *)
(* ------------------------------------------------------------------ *)

ClientCertificateSends == Sends(cx.log, "Certificate")

ClientCertificateVerifySends == Sends(cx.log, "CertificateVerify")

\* C24: the client emits a Certificate only if a CertificateRequest was
\* accepted in the handshake and a CertificateVerify only if a signer was
\* chosen, each once; once the server's Finished has verified, the
\* Certificate has been emitted iff a CertificateRequest was accepted, and
\* in a completed handshake the CertificateVerify has been emitted iff a
\* signer was chosen.  The CertificateVerify comes after the Certificate
\* and both before the client's Finished, in the transition of the
\* server's Finished.  In a resumed (PSK) handshake neither is ever
\* emitted.
C24_ClientAuthMessages ==
    /\ Cardinality(ClientCertificateSends) <= 1
    /\ Cardinality(ClientCertificateVerifySends) <= 1
    /\ ClientCertificateSends # {} => AcceptedOf("CertificateRequest") # {}
    /\ ClientCertificateVerifySends # {} => CredentialAnswer("signer")
    /\ ServerFinishedVerified =>
           (ClientCertificateSends # {} <=> AcceptedOf("CertificateRequest") # {})
    /\ InTraffic => (ClientCertificateVerifySends # {} <=> CredentialAnswer("signer"))
    /\ \A i \in ClientCertificateSends :
           /\ i > LastRecvIndex
           /\ cx.log[LastRecvIndex].typ = "Finished"
           /\ \A k \in ClientFinishedSends : i < k
    /\ \A j \in ClientCertificateVerifySends :
           /\ \E i \in ClientCertificateSends : i < j
           /\ \A k \in ClientFinishedSends : j < k
    /\ PskAccepted => ClientCertificateSends = {} /\ ClientCertificateVerifySends = {}

\* A completed handshake with client authentication: Certificate, then
\* CertificateVerify, then Finished.
C24_Witness ==
    /\ InTraffic
    /\ CredentialAnswer("signer")
    /\ \E i \in ClientCertificateSends : \E j \in ClientCertificateVerifySends :
          \E k \in ClientFinishedSends : i < j /\ j < k

\* A completed resumed handshake: no Certificate and no CertificateVerify
\* of the client.
C24_WitnessResumed ==
    /\ InTraffic
    /\ PskAccepted
    /\ ClientCertificateSends = {}
    /\ ClientFinishedSends # {}

(* ------------------------------------------------------------------ *)
(* C25: KeyUpdate(UpdateNotRequested)                                 *)
(* ------------------------------------------------------------------ *)

\* The places of cx.log where a KeyUpdate with the given request was
\* received and accepted by the traffic state.
KeyUpdatesReceived(request) ==
    {i \in 1..Len(cx.log) :
        /\ cx.log[i].ev = "recv" /\ cx.log[i].typ = "KeyUpdate"
        /\ cx.log[i].detail = request
        /\ \E j \in 1..(i - 1) : cx.log[j].ev = "start_traffic"
        /\ ~(i = LastRecvIndex /\ st.name = "Error")}

\* The places of cx.log where the client sent a KeyUpdate.
KeyUpdateSends == {i \in 1..Len(cx.log) : cx.log[i].ev = "send" /\ cx.log[i].typ = "KeyUpdate"}

\* The places of cx.log that belong to the transition that begins at i.
TransitionFrom(i) == {k \in (i + 1)..Len(cx.log) : TransitionOf(k) = i}

\* The key the record layer decrypts with before place i of cx.log.
DecrypterAt(i) ==
    LET sets == {j \in 1..(i-1) : cx.log[j].ev = "set_message_decrypter"} IN
    IF sets = {} THEN NoKey
    ELSE cx.log[CHOOSE j \in sets : \A k \in sets : k <= j].key

\* The transition of the KeyUpdate received at place i changes no write
\* key, sends nothing, and advances the read key exactly once.
RotatesReadKeyOnly(i) ==
    /\ \A k \in TransitionFrom(i) : cx.log[k].ev \notin {"set_message_encrypter", "send"}
    /\ Cardinality({k \in TransitionFrom(i) : cx.log[k].ev = "set_message_decrypter"}) = 1
    /\ \A k \in TransitionFrom(i) :
          cx.log[k].ev = "set_message_decrypter"
              => cx.log[k].key = [DecrypterAt(i) EXCEPT !.gen = @ + 1]

\* C25 as stated: after a KeyUpdate(UpdateNotRequested) was received in the
\* traffic state, the write key is unchanged, the read key is rotated
\* exactly once, and no KeyUpdate is sent on any later write unless an
\* UpdateRequested arrived after it.
C25_AsStated ==
    \A i \in KeyUpdatesReceived("UpdateNotRequested") :
        /\ RotatesReadKeyOnly(i)
        /\ \A k \in KeyUpdateSends :
              k > i => \E j \in KeyUpdatesReceived("UpdateRequested") : i < j /\ j < k

\* C25, amended: a KeyUpdate(UpdateNotRequested) received in the traffic
\* state leaves the write key and want_write_key_update as they were and
\* rotates the read key exactly once, and so does not cause a KeyUpdate to
\* be sent: every KeyUpdate the client sends (on a write) answers an
\* UpdateRequested received since the last KeyUpdate it sent.  A request
\* that is pending when UpdateNotRequested arrives stays pending and is
\* answered on the next write.
C25_UpdateNotRequested ==
    /\ \A i \in KeyUpdatesReceived("UpdateNotRequested") : RotatesReadKeyOnly(i)
    /\ \A k \in KeyUpdateSends :
          \E j \in KeyUpdatesReceived("UpdateRequested") :
              j < k /\ \A n \in KeyUpdateSends : ~(j < n /\ n < k)
    /\ st.name = "ExpectTraffic" =>
          st.want_write_key_update =
              \E j \in KeyUpdatesReceived("UpdateRequested") :
                  \A n \in KeyUpdateSends : n < j

\* An UpdateNotRequested arrived on a connection with no request pending,
\* and the user wrote twice since: no KeyUpdate was sent, the write key is
\* the first application key and the read key was advanced once.
C25_Witness ==
    /\ st.name = "ExpectTraffic"
    /\ KeyUpdatesReceived("UpdateRequested") = {}
    /\ \E i \in KeyUpdatesReceived("UpdateNotRequested") :
          Cardinality({k \in (i + 1)..Len(cx.log) : cx.log[k].ev = "write"}) = 2
    /\ KeyUpdateSends = {}
    /\ cx.encrypter.gen = 0
    /\ cx.decrypter.gen = 1

\* An UpdateRequested was pending when UpdateNotRequested arrived: the next
\* write sends the KeyUpdate.
C25_PendingRequestAnswered ==
    \E i \in KeyUpdatesReceived("UpdateNotRequested") :
        /\ \E k \in KeyUpdateSends : k > i
        /\ \A j \in KeyUpdatesReceived("UpdateRequested") : j < i

(* ------------------------------------------------------------------ *)
(* C26: KeyUpdate(UpdateRequested)                                    *)
(* ------------------------------------------------------------------ *)

\* The places of cx.log where the user wrote.
Writes == {i \in 1..Len(cx.log) : cx.log[i].ev = "write"}

\* An UpdateRequested was received and accepted since the last write
\* before place w of cx.log.
RequestPendingAt(w) ==
    \E j \in KeyUpdatesReceived("UpdateRequested") :
        j < w /\ \A v \in Writes : ~(j < v /\ v < w)

\* What the write that begins at place w of cx.log did to the record
\* layer.
WriteLog(w) ==
    SubSeq(cx.log, w + 1,
           IF \E v \in Writes \cup {i \in 1..Len(cx.log) : cx.log[i].ev = "recv"} : v > w
           THEN (CHOOSE v \in (w + 1)..Len(cx.log) :
                    /\ IsTransitionStart(cx.log[v])
                    /\ \A u \in (w + 1)..(v - 1) : ~IsTransitionStart(cx.log[u])) - 1
           ELSE Len(cx.log))

\* The write at place w answers the request: one KeyUpdate under the write
\* key in place before the write, then that key's successor is installed,
\* then the data goes out under the successor.
AnswersKeyUpdate(w) ==
    LET before == EncrypterAt(w)
        after == [before EXCEPT !.gen = @ + 1]
    IN WriteLog(w) =
          <<Event("send", "KeyUpdate", TLSv1_3, before, "update_not_requested", NoHello),
            Event("set_message_encrypter", None, None, after, None, NoHello),
            Event("send", "ApplicationData", TLSv1_2, after, None, NoHello)>>

\* The write at place w sends the data under the write key in place and
\* nothing else.
WritesDataOnly(w) ==
    WriteLog(w) = <<Event("send", "ApplicationData", TLSv1_2, EncrypterAt(w), None, NoHello)>>

\* C26: when one or several KeyUpdate(UpdateRequested) were received since
\* the last write, the next write sends exactly one KeyUpdate, encrypted
\* under the write key in place before the rotation, then rotates the
\* write key exactly once; a write with no UpdateRequested received since
\* the write before it sends no KeyUpdate and changes no key.
C26_UpdateRequestedAnsweredOnce ==
    /\ \A w \in Writes :
          IF RequestPendingAt(w) THEN AnswersKeyUpdate(w) ELSE WritesDataOnly(w)
    /\ \A k \in KeyUpdateSends : TransitionOf(k) \in Writes
    /\ cx.encrypter.kind = "ApplicationTraffic" =>
          cx.encrypter.gen = Cardinality(KeyUpdateSends)

\* Two UpdateRequested arrived, then the user wrote twice: the first write
\* sent the one KeyUpdate and rotated the write key, the second sent none.
C26_Witness ==
    /\ st.name = "ExpectTraffic"
    /\ Cardinality(KeyUpdatesReceived("UpdateRequested")) = 2
    /\ \E w1 \in Writes, w2 \in Writes :
          /\ w1 < w2
          /\ \A j \in KeyUpdatesReceived("UpdateRequested") : j < w1
          /\ AnswersKeyUpdate(w1)
          /\ WritesDataOnly(w2)
    /\ Cardinality(KeyUpdateSends) = 1
    /\ cx.encrypter.gen = 1
    /\ cx.decrypter.gen = 2

\* A request that arrives after the first was answered is answered by the
\* write that follows it.
C26_WitnessAgain ==
    /\ Cardinality(KeyUpdateSends) = 2
    /\ cx.encrypter.gen = 2

(* ------------------------------------------------------------------ *)
(* C27: what the traffic state accepts                                *)
(* ------------------------------------------------------------------ *)

\* The step under way hands a received record to the state object.
IsReceiveStep ==
    /\ Len(cx'.log) > Len(cx.log)
    /\ cx'.log[Len(cx.log) + 1].ev = "recv"

InappropriateErrors == {"InappropriateMessage", "InappropriateHandshakeMessage"}

\* The step under way changes no record-layer key and no flag of the
\* connection, and sends nothing: the context only notes the arrival (and
\* the delivery of application data).
ContextUntouched ==
    /\ [cx' EXCEPT !.log = cx.log] = cx
    /\ \A i \in 1..Len(StepLog) : StepLog[i].ev = "take_received_plaintext"

\* The step under way fails with the error kind given; the state object is
\* gone.
FailsWith(kinds) == st'.name = "Error" /\ st'.error[1] \in kinds

\* ExpectTraffic handles the record last_msg'.
C27_Step ==
    LET m == last_msg' IN
    CASE m.type = "ApplicationData" ->
            st' = st /\ ContextUntouched /\ session_storage' = session_storage
      [] m.type = "NewSessionTicket" ->
            IF m.time_ok
            THEN /\ st' = st
                 /\ ContextUntouched /\ StepLog = <<>>
                 /\ ~m.put_ok => session_storage' = session_storage
                 /\ m.put_ok => session_storage'.session.ticket = m.ticket
            ELSE FailsWith({"FailedToGetCurrentTime"}) /\ ContextUntouched
      [] m.type = "KeyUpdate" ->
            IF m.aligned /\ m.request \in {"UpdateNotRequested", "UpdateRequested"}
            THEN st'.name = "ExpectTraffic"
            ELSE FailsWith({"PeerMisbehavedError", "CorruptMessagePayload"})
      [] OTHER ->
            /\ FailsWith({IF is_handshake(m) THEN "InappropriateHandshakeMessage"
                          ELSE "InappropriateMessage"})
            /\ ContextUntouched /\ StepLog = <<>>
            /\ session_storage' = session_storage

C27_WitnessInappropriate ==
    /\ st.name = "Error"
    /\ st.failed_in = "ExpectTraffic"
    /\ st.error[1] \in InappropriateErrors
    /\ last_msg.type \in {"Finished", "ChangeCipherSpec"}

(* ------------------------------------------------------------------ *)
(* C28: the builder's validation                                      *)
(* ------------------------------------------------------------------ *)

\* for_client or for_server has answered.
RoleSelected == builder.result # None

\* A configured cipher suite belongs to an enabled version.
SomeSuiteUsable ==
    \E i \in 1..Len(builder.cipher_suites) :
        SuiteVersion(builder.cipher_suites[i]) \in builder.versions

\* C28: for every choice of cipher suites, kx groups and versions,
\* for_client / for_server succeeds iff some configured cipher suite
\* belongs to an enabled version and the list of kx groups is not empty;
\* with no usable suite the error is "no usable cipher suites configured",
\* also when the list of kx groups is empty; with a usable suite and no kx
\* group it is "no kx groups configured".
C28_BuilderValidates ==
    RoleSelected =>
        /\ builder.result = "Ok" <=> (SomeSuiteUsable /\ Len(builder.kx_groups) > 0)
        /\ builder.result = "Ok" <=>
              builder.stage \in {"ConfigWantsServerVerifier", "ConfigWantsClientVerifier"}
        /\ ~SomeSuiteUsable => builder.result = "no usable cipher suites configured"
        /\ SomeSuiteUsable /\ Len(builder.kx_groups) = 0
              => builder.result = "no kx groups configured"

\* for_client failed on a builder with suites of a version that is not
\* enabled and with no kx group: the error names the suites.
C28_Witness ==
    /\ builder.stage = "Error"
    /\ builder.result = "no usable cipher suites configured"
    /\ Len(builder.cipher_suites) > 0
    /\ builder.versions # {}
    /\ Len(builder.kx_groups) = 0

\* for_server succeeded though only the second suite of the list belongs
\* to the enabled version.
C28_WitnessBuilt ==
    /\ builder.stage = "ConfigWantsClientVerifier"
    /\ builder.versions = {TLSv1_3}
    /\ Len(builder.cipher_suites) = 2
    /\ SuiteVersion(builder.cipher_suites[1]) = TLSv1_2

(* ------------------------------------------------------------------ *)
(* C29: connections share the session storage only                    *)
(* ------------------------------------------------------------------ *)

\* The context and the state object of connection k.
Own(k) == IF k = 1 THEN [cx |-> cx, st |-> st] ELSE [cx |-> cx2, st |-> st2]

\* The session storage a connection would see if it ran alone: what its
\* own get calls returned, then what it put itself.
PrivateStorage(started) == [session |-> started.session, hint |-> started.hint]

\* A connection that ran alone so far (outcome p) takes in the message m.
AloneStep(started, p, m) ==
    handle(started.config, recv(p.cx, m), p.st, p.storage, started.time, m)

\* The outcome of a connection that takes in the first n of the inputs h
\* alone, on a storage of its own.
RECURSIVE Alone(_, _)
Alone(h, n) ==
    IF n = 1
    THEN Out(start_handshake(h[1].config, PrivateStorage(h[1]), h[1].time,
                             BlankContext(FALSE), TRUE),
             PrivateStorage(h[1]))
    ELSE AloneStep(h[1], Alone(h, n - 1), h[n])

\* The tickets connection k received and the storage took.
TicketsPut(k) ==
    {heard[k][i].ticket : i \in {j \in 2..Len(heard[k]) :
        heard[k][j].type = "NewSessionTicket" /\ heard[k][j].put_ok /\ heard[k][j].time_ok}}

IsolatedAs(k, alone) == Own(k).cx = alone.cx /\ Own(k).st = alone.st

\* C29: with two connections on one shared ClientConfig, under every
\* interleaving of their transitions, the config is the one each
\* connection was started with, each connection's context (the messages
\* it emitted, the keys it installed) and state object are what the same
\* connection reaches alone from the answers of its own get calls and its
\* own received messages, and the session storage holds what the last
\* successful put of either connection left.
C29_ConnectionsShareStorageOnly ==
    /\ \A k \in Connections :
          IF heard[k] = <<>>
          THEN Own(k) = [cx |-> BlankContext(FALSE), st |-> BlankState]
          ELSE /\ heard[k][1].config = config
               /\ IsolatedAs(k, Alone(heard[k], Len(heard[k])))
    /\ session_storage.session # NoSession =>
          \E k \in Connections : session_storage.session.ticket \in TicketsPut(k)
    /\ session_storage.session = NoSession =>
          \A k \in Connections : TicketsPut(k) = {}

\* Both connections started on the empty storage, ran their handshakes
\* side by side and had a ticket stored; the storage holds the ticket of
\* connection 1, whose put came last.
C29_Witness ==
    /\ st.name = "ExpectTraffic" /\ st2.name = "ExpectTraffic"
    /\ heard[1][1].session = NoSession /\ heard[2][1].session = NoSession
    /\ TicketsPut(1) = {TicketOf(1, 1)} /\ TicketsPut(2) = {TicketOf(2, 1)}
    /\ session_storage.session.ticket = TicketOf(1, 1)

\* Connection 2 started after the ticket of connection 1 was stored and
\* resumed from it while connection 1 was still running.
C29_WitnessResumed ==
    /\ st2.name = "ExpectTraffic"
    /\ heard[2][1].session # NoSession
    /\ heard[2][1].session.ticket = TicketOf(1, 1)
    /\ Len(cx.log) > 0 /\ cx.log[Len(cx.log)].ev = "recv"

(* ------------------------------------------------------------------ *)
(* C30: resumption round trip                                         *)
(* ------------------------------------------------------------------ *)

\* The ClientHello start_handshake of connection k sent.
FirstHello(k) ==
    SelectSeq(Own(k).cx.log, LAMBDA e : e.ev = "send" /\ e.typ = "ClientHello")[1].hello

\* The tickets (NewSessionTicket messages) connection j received in the
\* traffic state and the storage took.
StoredTickets(j) ==
    {heard[j][i] : i \in {n \in 2..Len(heard[j]) :
        heard[j][n].type = "NewSessionTicket" /\ heard[j][n].put_ok /\ heard[j][n].time_ok}}

\* start_handshake of connection k found the entry made from ticket nst,
\* not expired, with tickets enabled and TLS 1.3 supported.
ResumesFrom(k, nst) ==
    /\ heard[k] # <<>>
    /\ heard[k][1].session # NoSession
    /\ heard[k][1].session.ticket = nst.ticket
    /\ ~has_expired(heard[k][1].session, heard[k][1].time)
    /\ config.enable_tickets
    /\ supports_version(config, TLSv1_3)

\* The ClientHello offers one PSK identity, the ticket of nst, with a
\* binder, and EarlyData iff early data is enabled and the ticket allows
\* some.
OffersTicket(hello, nst) ==
    /\ Count(hello.extensions, "PreSharedKey") = 1
    /\ hello.ticket = nst.ticket
    /\ hello.binder # None
    /\ Offered(hello, "EarlyData")
          <=> (config.enable_early_data /\ nst.max_early_data_size > 0)

\* C30: after a NewSessionTicket received in the traffic state was put
\* into the session storage, a later start_handshake for the same server
\* that finds the entry before it expires, with tickets enabled and TLS 1.3
\* supported, offers exactly one PSK identity carrying that ticket, with a
\* binder, and offers EarlyData iff enable_early_data is set and the
\* max_early_data_size stored with the ticket is greater than 0; the
\* stored max_early_data_size is the one the ticket carried (0 without the
\* extension).
C30_ResumptionRoundTrip ==
    \A k \in Connections, j \in Connections :
        \A nst \in StoredTickets(j) :
            ResumesFrom(k, nst) =>
                /\ OffersTicket(FirstHello(k), nst)
                /\ heard[k][1].session.max_early_data_size =
                      (IF nst.max_early_data_size = NoEarlyData THEN 0
                       ELSE nst.max_early_data_size)
                /\ heard[k][1].session.max_early_data_size > 0
                      <=> nst.max_early_data_size > 0

\* Connection 2 was started one tick after the storage took a ticket with
\* an early-data allowance from connection 1, on a config with early data
\* enabled: its ClientHello offers the ticket and EarlyData.
C30_Witness ==
    /\ config.enable_early_data
    /\ \E nst \in StoredTickets(1) :
          /\ nst.max_early_data_size > 0
          /\ ResumesFrom(2, nst)
          /\ heard[2][1].time = 1
          /\ Offered(FirstHello(2), "EarlyData")
          /\ Offered(FirstHello(2), "PreSharedKey")
          /\ FirstHello(2).ticket = TicketOf(1, 1)

\* A ticket without allowance is offered without EarlyData.
C30_WitnessNoEarlyData ==
    /\ config.enable_early_data
    /\ \E nst \in StoredTickets(1) :
          /\ nst.max_early_data_size = NoEarlyData
          /\ ResumesFrom(2, nst)
          /\ ~Offered(FirstHello(2), "EarlyData")
          /\ Offered(FirstHello(2), "PreSharedKey")

\* An entry found after it expired is not offered.
C30_ExpiredNotOffered ==
    /\ heard[2] # <<>>
    /\ heard[2][1].session # NoSession
    /\ has_expired(heard[2][1].session, heard[2][1].time)
    /\ ~Offered(FirstHello(2), "PreSharedKey")

(* ------------------------------------------------------------------ *)
(* C31: the key-exchange hint                                         *)
(* ------------------------------------------------------------------ *)

\* The step under way is start_handshake of a configuration with TLS 1.3
\* and it sent a ClientHello.
StartsHandshake13 ==
    /\ st.name = "Start"
    /\ st'.name # "Error"
    /\ supports_version(config, TLSv1_3)

\* The step under way accepts a TLS 1.3 ServerHello.
AcceptsServerHello13 ==
    /\ st.name \in {"ExpectServerHelloOrHelloRetryRequest", "ExpectServerHello"}
    /\ last_msg'.type = "ServerHello"
    /\ st'.name = "ExpectEncryptedExtensions"

\* The group start_handshake is to offer a key share for, given the hint
\* the storage holds for the server name.
HintedGroup(hint) ==
    IF hint # None /\ Contains(config.kx_groups, hint) THEN hint ELSE config.kx_groups[1]

\* C31: when a TLS 1.3 ServerHello is accepted (also one that follows a
\* HelloRetryRequest to another group) the storage holds, as the hint for
\* the server name, the group of the server's key share, which is the group
\* of the latest ClientHello's key share.  start_handshake offers one key
\* share, for the group of the hint the storage holds if that group is in
\* kx_groups and for the first group of kx_groups otherwise, and leaves the
\* hint as it is; so the start_handshake that follows an accepted
\* ServerHello offers the group that ServerHello answered with.
C31_KxHintRoundTrip ==
    [][/\ AcceptsServerHello13 =>
            /\ session_storage'.hint = last_msg'.key_share
            /\ session_storage'.hint = LastClientHello.key_share.group
            /\ HintedGroup(session_storage'.hint) = session_storage'.hint
       /\ StartsHandshake13 =>
            /\ Len(ClientHellos') = 1
            /\ Offered(ClientHellos'[1].hello, "KeyShare")
            /\ ClientHellos'[1].hello.key_share.group = HintedGroup(session_storage.hint)
            /\ st'.offered_key_share = ClientHellos'[1].hello.key_share
            /\ session_storage'.hint = session_storage.hint]_vars

\* The storage held no hint, the first ClientHello offered the first
\* configured group, a HelloRetryRequest asked for secp256r1 and the
\* ServerHello that answered the retry was accepted: the hint is secp256r1.
C31_Witness ==
    /\ st.name = "ExpectEncryptedExtensions"
    /\ Len(ClientHellos) = 2
    /\ ClientHellos[1].hello.key_share.group = X25519
    /\ ClientHellos[2].hello.key_share.group = secp256r1
    /\ last_msg.type = "ServerHello"
    /\ last_msg.key_share = secp256r1
    /\ session_storage.hint = secp256r1

\* The storage holds the hint secp256r1 a handshake left and start_handshake
\* offered a key share for it, not for the first configured group.
C31_WitnessHinted ==
    /\ st.name = "ExpectServerHelloOrHelloRetryRequest"
    /\ session_storage.hint = secp256r1
    /\ Len(ClientHellos) = 1
    /\ ClientHellos[1].hello.key_share.group = secp256r1
    /\ config.kx_groups[1] = X25519

\* The storage holds a hint for a group that is not configured and
\* start_handshake offered the first configured group.
C31_WitnessNotConfigured ==
    /\ st.name = "ExpectServerHelloOrHelloRetryRequest"
    /\ session_storage.hint = secp384r1
    /\ ClientHellos[1].hello.key_share.group = X25519

(* ------------------------------------------------------------------ *)
(* C32: one HelloRetryRequest at most                                 *)
(* ------------------------------------------------------------------ *)

\* A ClientHello went out and no answer to it was handled yet.
AwaitsFirstAnswer ==
    /\ Len(ClientHellos) = 1
    /\ last_msg = NoMsg
    /\ st.name # "Error"

\* The connection refused a HelloRetryRequest in the state that takes a
\* ServerHello only.
RefusedHelloRetryRequest ==
    /\ st.name = "Error"
    /\ st.failed_in = "ExpectServerHello"
    /\ last_msg.type = "HelloRetryRequest"

\* C32: a connection accepts at most one HelloRetryRequest and sends at
\* most two ClientHellos, one more than the HelloRetryRequests it accepted.
\* The state after the first ClientHello takes ServerHello or
\* HelloRetryRequest exactly when TLS 1.3 is supported; the state after a
\* retry ClientHello, and after the ClientHello of a configuration without
\* TLS 1.3, takes a ServerHello only; a HelloRetryRequest that arrives in
\* it is refused as an inappropriate handshake message.
C32_OneHelloRetryRequest ==
    /\ Cardinality(AcceptedOf("HelloRetryRequest")) <= 1
    /\ Len(ClientHellos) <= 2
    /\ st.name \notin {"Start", "Error"} =>
          Len(ClientHellos) = 1 + Cardinality(AcceptedOf("HelloRetryRequest"))
    /\ AwaitsFirstAnswer =>
          st.name = IF supports_version(config, TLSv1_3)
                    THEN "ExpectServerHelloOrHelloRetryRequest" ELSE "ExpectServerHello"
    /\ st.name = "ExpectServerHelloOrHelloRetryRequest" =>
          AwaitsFirstAnswer /\ supports_version(config, TLSv1_3)
    /\ st.name = "ExpectServerHello" =>
          \/ AwaitsFirstAnswer /\ ~supports_version(config, TLSv1_3)
          \/ /\ AcceptedTypes = <<"HelloRetryRequest">>
             /\ Len(ClientHellos) = 2
             /\ last_msg.type = "HelloRetryRequest"
    /\ RefusedHelloRetryRequest =>
          /\ st.error = <<"InappropriateHandshakeMessage", "HelloRetryRequest">>
          /\ cx.log[Len(cx.log)].ev = "recv"

\* A second HelloRetryRequest arrived after the retry ClientHello and was
\* refused: two ClientHellos were sent and nothing after the second.
C32_Witness ==
    /\ RefusedHelloRetryRequest
    /\ AcceptedTypes = <<"HelloRetryRequest">>
    /\ Len(ClientHellos) = 2
    /\ cx.log[Len(cx.log)].typ = "HelloRetryRequest"

\* A configuration without TLS 1.3 refused the HelloRetryRequest that
\* answered its first ClientHello.
C32_WitnessTls12Only ==
    /\ RefusedHelloRetryRequest
    /\ ~supports_version(config, TLSv1_3)
    /\ accepted = <<>>
    /\ Len(ClientHellos) = 1

(* ------------------------------------------------------------------ *)
(* C33: early data is offered on the first ClientHello only           *)
(* ------------------------------------------------------------------ *)

\* The cached session allows early data.
CachedEarlyDataAllowance ==
    /\ session_storage.session # NoSession
    /\ session_storage.session.max_early_data_size > 0

\* The positions of cx.log where an early traffic key becomes the encrypter,
\* and those where a message arrives.
EarlyKeyInstalls ==
    {i \in EncrypterInstalls(cx.log) : cx.log[i].key.kind = "EarlyTraffic"}

Receipts == {i \in 1..Len(cx.log) : cx.log[i].ev = "recv"}

\* C33: a ClientHello carries the EarlyData extension only if it is the
\* first ClientHello of the connection, it carries a PreSharedKey offer,
\* enable_early_data is set and the cached max_early_data_size is greater
\* than 0; the ClientHello sent after a HelloRetryRequest never carries it.
\* Once a HelloRetryRequest was accepted early data is not enabled (neither
\* ready nor accepted), and an early traffic key is installed only before
\* anything was received, at most once.
C33_EarlyDataOnFirstHelloOnly ==
    /\ \A i \in 1..Len(ClientHellos) :
          Offered(ClientHellos[i].hello, "EarlyData") =>
             /\ i = 1
             /\ Offered(ClientHellos[i].hello, "PreSharedKey")
             /\ config.enable_early_data
             /\ CachedEarlyDataAllowance
    /\ AcceptedOf("HelloRetryRequest") # {} => ~early_data_is_enabled(cx)
    /\ \A i \in EarlyKeyInstalls : \A r \in Receipts : i < r
    /\ Cardinality(EarlyKeyInstalls) <= 1
    /\ EarlyKeyInstalls # {} => Offered(ClientHellos[1].hello, "EarlyData")

\* The first ClientHello offered early data, a HelloRetryRequest was
\* accepted, and the retry offers the PSK again but no early data; early
\* data is rejected and the one early key was installed before the
\* HelloRetryRequest arrived.
C33_Witness ==
    /\ st.name = "ExpectServerHello"
    /\ Len(ClientHellos) = 2
    /\ Offered(ClientHellos[1].hello, "EarlyData")
    /\ Offered(ClientHellos[2].hello, "PreSharedKey")
    /\ ~Offered(ClientHellos[2].hello, "EarlyData")
    /\ cx.early_data = "Rejected"
    /\ Cardinality(EarlyKeyInstalls) = 1

\* A PSK is offered without early data: the cached ticket has no allowance
\* although enable_early_data is set.
C33_WitnessPskOnly ==
    /\ Len(ClientHellos) = 1
    /\ Offered(ClientHellos[1].hello, "PreSharedKey")
    /\ ~Offered(ClientHellos[1].hello, "EarlyData")
    /\ config.enable_early_data
    /\ ~CachedEarlyDataAllowance
    /\ EarlyKeyInstalls = {}

(* ------------------------------------------------------------------ *)
(* C34: the order of the ClientHello extensions                       *)
(* ------------------------------------------------------------------ *)

\* The extensions the library generates ahead of the caller's, in the
\* order it appends them.
LeadingExtensions ==
    <<"SupportedVersions", "ServerName", "ECPointFormats", "NamedGroups",
      "SignatureAlgorithms", "ExtendedMasterSecret", "StatusRequest", "SCT", "KeyShare",
      "Cookie", "PSKKeyExchangeModes", "ALProtocolNegotiation">>

\* The ticket extensions, one of which at most ends the list.
TicketExtensions == {"SessionTicketRequest", "SessionTicketOffer", "PreSharedKey"}

\* The extensions the caller of start_handshake supplied.
CallerExtensions == IF cx.quic THEN {"TransportParameters"} ELSE {}

\* The place of an extension in the order of emission: the leading ones in
\* their order, then the caller's, then EarlyData, then a ticket extension.
Place(ext) ==
    CASE Contains(LeadingExtensions, ext) -> IndexOf(LeadingExtensions, ext)
      [] ext \in CallerExtensions -> Len(LeadingExtensions) + 1
      [] ext = "EarlyData" -> Len(LeadingExtensions) + 2
      [] ext \in TicketExtensions -> Len(LeadingExtensions) + 3
      [] OTHER -> 0

\* The extensions of a ClientHello the library generated.
LibraryGenerated(hello) ==
    {i \in 1..Len(hello.extensions) : hello.extensions[i] \notin CallerExtensions}

\* The caller's extensions come after every library-generated extension
\* other than a ticket extension in last place.
ExtrasBeforeFinalTicketOnly(hello) ==
    LET n == Len(hello.extensions) IN
    \A i \in 1..n : hello.extensions[i] \in CallerExtensions =>
        \A j \in LibraryGenerated(hello) :
            j < i \/ (j = n /\ hello.extensions[j] \in TicketExtensions)

\* C34 as stated: in every ClientHello sent the caller-supplied extensions
\* come after all library-generated ones except the final ticket
\* extension.
C34_AsStated == \A h \in 1..Len(ClientHellos) : ExtrasBeforeFinalTicketOnly(ClientHellos[h].hello)

\* C34: in every ClientHello sent (first or retry) the extensions are in
\* the order of emission, each at most once: the leading library-generated
\* ones, then the caller's, then EarlyData if early data is offered, then at
\* most one of SessionTicketRequest, SessionTicketOffer and PreSharedKey.
\* So the caller's extensions follow every library-generated extension
\* except EarlyData and the ticket extension, and a PreSharedKey extension
\* is the last one.  SupportedVersions lists TLS 1.3 before TLS 1.2;
\* KeyShare is present iff TLS 1.3 is supported; Cookie is present iff the
\* HelloRetryRequest the ClientHello answers supplied one, and carries it.
C34_ExtensionOrder ==
    \A h \in 1..Len(ClientHellos) :
        LET hello == ClientHellos[h].hello
            exts == hello.extensions
            n == Len(exts)
        IN /\ \A i \in 1..n : Place(exts[i]) # 0
           /\ \A i, j \in 1..n : i < j => Place(exts[i]) < Place(exts[j])
           /\ \A i \in 1..n : exts[i] = "PreSharedKey" => i = n
           /\ \A i \in 1..n : exts[i] \in CallerExtensions =>
                 \A j \in LibraryGenerated(hello) :
                     j < i \/ exts[j] \in TicketExtensions \cup {"EarlyData"}
           /\ hello.supported_versions \in
                 {<<TLSv1_3, TLSv1_2>>, <<TLSv1_3>>, <<TLSv1_2>>}
           /\ Offered(hello, "KeyShare") <=> supports_version(config, TLSv1_3)
           /\ Offered(hello, "Cookie") <=> hello.cookie # None
           /\ h = 1 => hello.cookie = None
           /\ (h = 2 /\ st.name = "ExpectServerHello" /\ last_msg.type = "HelloRetryRequest")
                 => hello.cookie = last_msg.cookie

\* Over QUIC the first ClientHello offers early data: the caller's
\* transport parameters are followed by EarlyData and by PreSharedKey.
C34_Witness ==
    /\ Len(ClientHellos) = 1
    /\ LET exts == ClientHellos[1].hello.extensions
           n == Len(exts)
       IN /\ n >= 3
          /\ exts[n - 2] = "TransportParameters"
          /\ exts[n - 1] = "EarlyData"
          /\ exts[n] = "PreSharedKey"

\* A retry ClientHello carrying the cookie of its HelloRetryRequest and a
\* PreSharedKey in last place.
C34_WitnessRetry ==
    /\ Len(ClientHellos) = 2
    /\ st.name = "ExpectServerHello"
    /\ LET hello == ClientHellos[2].hello IN
          /\ Offered(hello, "Cookie")
          /\ hello.cookie = "cookie"
          /\ hello.extensions[Len(hello.extensions)] = "PreSharedKey"
          /\ hello.supported_versions = <<TLSv1_3, TLSv1_2>>

(* ------------------------------------------------------------------ *)
(* C35: the TLS 1.2 SessionTicket extension                           *)
(* ------------------------------------------------------------------ *)

\* The session find_session returned to start_handshake: the cached one
\* when a ClientHello names its ticket (the storage keeps its session
\* through the handshake).
CachedVersion ==
    IF session_storage.session = NoSession THEN None ELSE session_storage.session.version

\* What a ClientHello says about tickets is as stated for a configuration:
\* a SessionTicketOffer carries the ticket of a cached TLS 1.2 session and
\* never that of a TLS 1.3 session; a SessionTicketRequest is sent only
\* when no ticket is held.
TicketExtensionAsStated(hello) ==
    /\ Offered(hello, "SessionTicketOffer") =>
          /\ CachedVersion = TLSv1_2
          /\ hello.ticket = session_storage.session.ticket
          /\ hello.ticket # ""
    /\ Offered(hello, "SessionTicketRequest") =>
          /\ config.enable_tickets
          /\ hello.ticket = ""

\* C35 as stated: in every ClientHello sent, for every configuration, the
\* SessionTicketOffer extension carries a ticket only when the cached
\* session is a TLS 1.2 session, never the ticket of a cached TLS 1.3
\* session, and SessionTicketRequest is sent when no ticket is held.
C35_AsStated == \A h \in 1..Len(ClientHellos) : TicketExtensionAsStated(ClientHellos[h].hello)

\* The statement of C35 holds for the configurations that support TLS 1.3.
C35_WhenTls13Supported ==
    supports_version(config, TLSv1_3) =>
        \A h \in 1..Len(ClientHellos) : TicketExtensionAsStated(ClientHellos[h].hello)

\* A configuration without TLS 1.3 whose cipher suites still resolve the
\* suite of a cached TLS 1.3 session put that session's ticket into a
\* SessionTicketOffer.
C35_Tls13TicketInOffer ==
    /\ Len(ClientHellos) = 1
    /\ ~supports_version(config, TLSv1_3)
    /\ config.enable_tickets
    /\ CachedVersion = TLSv1_3
    /\ Offered(ClientHellos[1].hello, "SessionTicketOffer")
    /\ ClientHellos[1].hello.ticket = session_storage.session.ticket
    /\ ClientHellos[1].hello.ticket # ""

(* ------------------------------------------------------------------ *)
(* C36: after a HelloRetryRequest the handshake is TLS 1.3            *)
(* ------------------------------------------------------------------ *)

\* A HelloRetryRequest was accepted and the ServerHello that followed is
\* the message handled last.
ServerHelloAfterRetry ==
    /\ AcceptedOf("HelloRetryRequest") # {}
    /\ last_msg.type = "ServerHello"

\* That ServerHello resolves to TLS 1.2 or selects a suite that is not a
\* TLS 1.3 suite.
AnswersRetryWithTls12 ==
    \/ server_version(last_msg) = TLSv1_2
    \/ last_msg.cipher_suite \notin Tls13Suites

\* After an accepted HelloRetryRequest a ServerHello that resolves to
\* TLS 1.2 or selects a TLS 1.2 suite is rejected and the TLS 1.2 handler
\* never takes the connection over.
OnlyTls13AfterRetry ==
    /\ (ServerHelloAfterRetry /\ AnswersRetryWithTls12) => st.name = "Error"
    /\ AcceptedOf("HelloRetryRequest") # {} => st.name # "Tls12Handshake"

\* C36 as stated: after a HelloRetryRequest has been accepted, every
\* subsequent ServerHello that resolves to TLS 1.2 or that selects a
\* TLS 1.2 cipher suite is rejected, and the connection is never handed to
\* the TLS 1.2 handler, whatever cipher suite the HelloRetryRequest named.
C36_AsStated == OnlyTls13AfterRetry

\* The statement of C36 holds when the HelloRetryRequest named a TLS 1.3
\* suite (cx.suite holds the suite of the accepted HelloRetryRequest, which
\* an accepted ServerHello has to repeat).
C36_WhenRetryNamedTls13Suite ==
    (AcceptedOf("HelloRetryRequest") # {} /\ cx.suite \in Tls13Suites) => OnlyTls13AfterRetry

\* A HelloRetryRequest naming a TLS 1.2 suite was accepted, a retry
\* ClientHello with a key share went out, and the ServerHello that followed
\* (TLS 1.2, the same suite) handed the connection to the TLS 1.2 handler.
C36_Tls12HandlerAfterRetry ==
    /\ st.name = "Tls12Handshake"
    /\ ServerHelloAfterRetry
    /\ server_version(last_msg) = TLSv1_2
    /\ last_msg.cipher_suite = TLS_ECDHE_RSA_WITH_AES_128_GCM_SHA256
    /\ cx.suite = TLS_ECDHE_RSA_WITH_AES_128_GCM_SHA256
    /\ Len(ClientHellos) = 2
    /\ Offered(ClientHellos[2].hello, "KeyShare")

(* ------------------------------------------------------------------ *)
(* C37: the early_traffic flag                                        *)
(* ------------------------------------------------------------------ *)

\* early_traffic is set only while early data is enabled (offered and not
\* rejected) and the encrypter is the early traffic key.
EarlyTrafficOnlyWhileEnabled ==
    cx.early_traffic =>
        /\ early_data_is_enabled(cx)
        /\ cx.encrypter.kind = "EarlyTraffic"

\* C37 as stated: in every reachable state early_traffic is true only
\* while early data is enabled and the encrypter is the early traffic key;
\* once a HelloRetryRequest has been accepted early_traffic is false; the
\* handshake encrypter is never the installed one while early_traffic is
\* true.
C37_AsStated ==
    /\ EarlyTrafficOnlyWhileEnabled
    /\ AcceptedOf("HelloRetryRequest") # {} => ~cx.early_traffic
    /\ cx.encrypter.kind = "HandshakeTraffic" => ~cx.early_traffic

\* The statement of C37 holds in the states of a connection that was sent
\* no HelloRetryRequest.
C37_WithoutRetry ==
    (\A i \in Receipts : cx.log[i].typ # "HelloRetryRequest") => EarlyTrafficOnlyWhileEnabled

\* The first ClientHello offered early data and a HelloRetryRequest was
\* accepted: early data is rejected, the retry went out, and early_traffic
\* is still set with the early key as the encrypter.
C37_EarlyTrafficAfterRetry ==
    /\ st.name = "ExpectServerHello"
    /\ AcceptedTypes = <<"HelloRetryRequest">>
    /\ cx.early_data = "Rejected"
    /\ cx.early_traffic
    /\ cx.encrypter.kind = "EarlyTraffic"

\* The ServerHello after that retry selected the PSK: the client handshake
\* key became the encrypter while early_traffic is still set.
C37_HandshakeKeyWhileEarlyTraffic ==
    /\ st.name = "ExpectEncryptedExtensions"
    /\ AcceptedTypes = <<"HelloRetryRequest", "ServerHello">>
    /\ cx.early_traffic
    /\ cx.encrypter.kind = "HandshakeTraffic"

(* ------------------------------------------------------------------ *)
(* C38: the ALPN protocol the connection records                      *)
(* ------------------------------------------------------------------ *)

\* The recorded ALPN protocol is absent or one the configuration offers.
RecordedAlpnWasOffered ==
    cx.alpn_protocol = None \/ cx.alpn_protocol \in config.alpn_protocols

\* The last transition refused the server's ALPN protocol.
RefusedAlpn ==
    /\ st.name = "Error"
    /\ st.error = <<"PeerMisbehavedError", "server sent non-offered ALPN protocol">>

\* C38 as stated: in every reachable state, also the one a failed
\* transition leaves, the recorded ALPN protocol is absent or one of the
\* offered alpn_protocols; a protocol that was not offered is not recorded.
C38_AsStated == RecordedAlpnWasOffered

\* What holds of C38: in every state whose last transition did not fail
\* the recorded protocol is absent or offered, and a transition that meets
\* a protocol that was not offered fails with an IllegalParameter alert.
C38_OfferedUnlessRefused ==
    /\ st.name # "Error" => RecordedAlpnWasOffered
    /\ ~RecordedAlpnWasOffered =>
          /\ RefusedAlpn
          /\ last_msg.alpn = cx.alpn_protocol
          /\ IsAlert(cx.log[Len(cx.log)], "IllegalParameter")

\* EncryptedExtensions selected a protocol that was not offered: the
\* transition failed and the connection records that protocol.
C38_NonOfferedRecorded ==
    /\ RefusedAlpn
    /\ st.failed_in = "ExpectEncryptedExtensions"
    /\ last_msg.alpn = "http/1.1"
    /\ cx.alpn_protocol = "http/1.1"
    /\ "http/1.1" \notin config.alpn_protocols

(* ------------------------------------------------------------------ *)
(* C39: the session lookup is read-only                               *)
(* ------------------------------------------------------------------ *)

\* The step under way is start_handshake of connection k.
StartsConnection(k) == heard[k] = <<>> /\ heard'[k] # <<>>

\* The step under way is a put of a session for the server name: one of
\* the connections received a NewSessionTicket that the storage took.
PutsSession ==
    \E k \in Connections :
        /\ Len(heard'[k]) = Len(heard[k]) + 1
        /\ heard'[k][Len(heard'[k])].type = "NewSessionTicket"
        /\ heard'[k][Len(heard'[k])].put_ok

\* C39: start_handshake leaves the session storage as it found it, also
\* when the entry it found has expired; the stored session is replaced
\* only by a put for the server name.  A ticket that start_handshake
\* offers is therefore still stored, with its early-data allowance, once
\* the ClientHello is sent, for the next start_handshake to find.
C39_LookupIsReadOnly ==
    [][/\ \A k \in Connections : StartsConnection(k) => session_storage' = session_storage
       /\ session_storage'.session # session_storage.session => PutsSession
       /\ \A k \in Connections :
             (StartsConnection(k) /\ Offered(FirstHello(k)', "PreSharedKey")) =>
                /\ session_storage'.session # NoSession
                /\ session_storage'.session.ticket = FirstHello(k)'.ticket
                /\ Offered(FirstHello(k)', "EarlyData") =>
                      session_storage'.session.max_early_data_size > 0]_vars

\* Connection 2 has just offered the ticket and the early data that the
\* storage took from connection 1, and the storage holds that ticket with
\* its allowance as before.
C39_Witness ==
    /\ Len(heard[2]) = 1
    /\ Offered(FirstHello(2), "PreSharedKey")
    /\ Offered(FirstHello(2), "EarlyData")
    /\ FirstHello(2).ticket = TicketOf(1, 1)
    /\ session_storage.session # NoSession
    /\ session_storage.session.ticket = TicketOf(1, 1)
    /\ session_storage.session.max_early_data_size > 0

\* Connection 2 has just found the entry expired and offered nothing; the
\* storage holds the expired entry still.
C39_WitnessExpired ==
    /\ Len(heard[2]) = 1
    /\ heard[2][1].session # NoSession
    /\ has_expired(heard[2][1].session, heard[2][1].time)
    /\ ~Offered(FirstHello(2), "PreSharedKey")
    /\ session_storage.session = heard[2][1].session

(* ------------------------------------------------------------------ *)
(* C40: the handshake states form an acyclic progression              *)
(* ------------------------------------------------------------------ *)

\* The place of a state object in the handshake; the traffic state, the
\* hand-over to the TLS 1.2 states and the error come last.
StateRank(name) ==
    CASE name = "Start" -> 0
      [] name = "ExpectServerHelloOrHelloRetryRequest" -> 1
      [] name = "ExpectServerHello" -> 2
      [] name = "ExpectEncryptedExtensions" -> 3
      [] name = "ExpectCertificateOrCertReq" -> 4
      [] name = "ExpectCertificate" -> 5
      [] name = "ExpectCertificateVerify" -> 6
      [] name = "ExpectFinished" -> 7
      [] OTHER -> 8

\* The server handshake messages of a TLS 1.3 handshake, in the order of
\* the flight.
ServerMessageOrder ==
    <<"HelloRetryRequest", "ServerHello", "EncryptedExtensions", "CertificateRequest",
      "Certificate", "CertificateVerify", "Finished">>

\* The accepted messages are server handshake messages, each of its type
\* once, in the order of the flight.
InFlightOrder(msgs) ==
    /\ \A i \in 1..Len(msgs) : Contains(ServerMessageOrder, msgs[i].type)
    /\ \A i, j \in 1..Len(msgs) :
          i < j => IndexOf(ServerMessageOrder, msgs[i].type)
                      < IndexOf(ServerMessageOrder, msgs[j].type)

\* C40: every transition of the handshake, whatever message arrives,
\* leaves the state object for one further on in the progression
\* Start, ExpectServerHelloOrHelloRetryRequest, ExpectServerHello,
\* ExpectEncryptedExtensions, ExpectCertificateOrCertReq, ExpectCertificate,
\* ExpectCertificateVerify, ExpectFinished, and then the traffic state or
\* the error: no state is entered again, no transition starts from the
\* error, and at most 7 server handshake messages are accepted, each type
\* once and in the order of the flight, the count staying below the place
\* of the state that waits for the next one.
C40_AcyclicProgression ==
    [][/\ StateRank(st'.name) > StateRank(st.name)
       /\ st.name # "Error"
       /\ Len(accepted') <= 7
       /\ InFlightOrder(accepted')
       /\ st'.name \in PreTrafficStates => Len(accepted') < StateRank(st'.name)]_vars

\* The longest handshake: the 7 messages were accepted, the
\* HelloRetryRequest and the CertificateRequest among them, and the
\* traffic state is reached.
C40_Witness ==
    /\ st.name = "ExpectTraffic"
    /\ Len(accepted) = 7
    /\ [i \in 1..7 |-> accepted[i].type] = ServerMessageOrder

\* A handshake that ended in the error on its seventh message.
C40_WitnessError ==
    /\ st.name = "Error"
    /\ st.failed_in = "ExpectFinished"
    /\ Len(accepted) = 6
    /\ last_msg.type = "Finished"

====
